---- MODULE Spec2Model ----
(***************************************************************************)
(* Model of the shipping-instruction normalizer (src/ai_normalizer.py).    *)
(*                                                                         *)
(* Python strings are sequences of one-character strings; the characters   *)
(* that cannot be typed are the symbols "NBSP" (U+00A0) and "ENDASH"       *)
(* (U+2013).  Floats that the code only compares, adds and subtracts are   *)
(* integers; confidences are hundredths (0.95 is 95).                      *)
(***************************************************************************)
EXTENDS Integers, Sequences, FiniteSets, TLC

VARIABLES
    pc,       \* position of the running entry point
    doc,      \* main: the layout tree read from structuredData.json
    payload,  \* main: the candidate document
    conf,     \* main: the confidence map
    low,      \* main: the keys handed to the vision assist
    fixed,    \* llm_refine: the answer of the language model, once parsed
    prev,     \* the candidate document before the latest call that returned it
    s,        \* argument of a function called on its own
    val,      \* value that call returned
    JOBS,     \* app: the job table, job id -> status record
    task,     \* app: the statement each job's process_job is at
    polls,    \* app: the polls adobe_poll_job has made for each job
    pdfs,     \* app: the jobs whose uploaded temporary PDF is on disk
    template, \* app: DOC_TEMPLATE_PATH exists
    resp      \* app: the latest response sent by upload or get_result

mvars == <<doc, payload, conf, low, fixed>>
wvars == <<s, val>>
nvars == <<pc, doc, payload, conf, low, fixed, prev, s, val>>
avars == <<JOBS, task, polls, pdfs, template, resp>>
vars == <<pc, doc, payload, conf, low, fixed, prev, s, val,
          JOBS, task, polls, pdfs, template, resp>>

(***************************************************************************)
(* Characters and regular-expression character classes                      *)
(***************************************************************************)
UpperSeq ==
    <<"A","B","C","D","E","F","G","H","I","J","K","L","M",
      "N","O","P","Q","R","S","T","U","V","W","X","Y","Z">>
LowerSeq ==
    <<"a","b","c","d","e","f","g","h","i","j","k","l","m",
      "n","o","p","q","r","s","t","u","v","w","x","y","z">>
UpperSet == {UpperSeq[i] : i \in 1..26}
LowerSet == {LowerSeq[i] : i \in 1..26}
DigitSet == {"0","1","2","3","4","5","6","7","8","9"}

\* \d
IsDigit(c) == c \in DigitSet
\* \s (str patterns are Unicode-aware: U+00A0 is whitespace)
IsSpace(c) == c \in {" ", "\n", "\t", "NBSP"}
\* \w
IsWord(c) == c \in UpperSet \cup LowerSet \cup DigitSet \cup {"_"}
\* [.:;–\-_/\\]
IsPunct(c) == c \in {".", ":", ";", "ENDASH", "-", "_", "/", "\\"}
\* [:\-–]
IsSepChar(c) == c \in {":", "-", "ENDASH"}

LowerOf == [c \in UpperSet |-> LowerSeq[CHOOSE i \in 1..26 : UpperSeq[i] = c]]
UpperOf == [c \in LowerSet |-> UpperSeq[CHOOSE i \in 1..26 : LowerSeq[i] = c]]
\* str.lower on one character; folds case for re.I
LowerChar(c) == IF c \in UpperSet THEN LowerOf[c] ELSE c
\* str.upper on one character
UpperChar(c) == IF c \in LowerSet THEN UpperOf[c] ELSE c
Lower(t) == [i \in 1..Len(t) |-> LowerChar(t[i])]
Upper(t) == [i \in 1..Len(t) |-> UpperChar(t[i])]

Min(a, b) == IF a <= b THEN a ELSE b
Max(a, b) == IF a >= b THEN a ELSE b

\* the literal lit occurs in t at index i (1-based), ignoring case
MatchCI(t, i, lit) ==
    /\ i >= 1
    /\ i + Len(lit) - 1 <= Len(t)
    /\ \A j \in 1..Len(lit) : LowerChar(t[i + j - 1]) = LowerChar(lit[j])

\* number of consecutive characters of t from index i on that satisfy a class
RECURSIVE DigitsFrom(_, _)
DigitsFrom(t, i) ==
    IF i >= 1 /\ i <= Len(t) /\ IsDigit(t[i]) THEN 1 + DigitsFrom(t, i + 1) ELSE 0
RECURSIVE SpacesFrom(_, _)
SpacesFrom(t, i) ==
    IF i >= 1 /\ i <= Len(t) /\ IsSpace(t[i]) THEN 1 + SpacesFrom(t, i + 1) ELSE 0
RECURSIVE PunctFrom(_, _)
PunctFrom(t, i) ==
    IF i >= 1 /\ i <= Len(t) /\ IsPunct(t[i]) THEN 1 + PunctFrom(t, i + 1) ELSE 0
\* number of consecutive characters of t up to index i that satisfy a class
RECURSIVE SpacesBack(_, _)
SpacesBack(t, i) ==
    IF i >= 1 /\ i <= Len(t) /\ IsSpace(t[i]) THEN 1 + SpacesBack(t, i - 1) ELSE 0
RECURSIVE PunctBack(_, _)
PunctBack(t, i) ==
    IF i >= 1 /\ i <= Len(t) /\ IsPunct(t[i]) THEN 1 + PunctBack(t, i - 1) ELSE 0

\* the concatenation of the pieces f[lo], ..., f[hi]
RECURSIVE Gather(_, _, _)
Gather(f, lo, hi) ==
    IF lo > hi THEN <<>>
    ELSE IF lo = hi THEN f[lo]
    ELSE LET mid == (lo + hi) \div 2
         IN  Gather(f, lo, mid) \o Gather(f, mid + 1, hi)

\* the characters of t at the indexes in keep, in order
Keep(t, keep) ==
    Gather([i \in 1..Len(t) |-> IF i \in keep THEN <<t[i]>> ELSE <<>>], 1, Len(t))

\* \b between t[i-1] and t[i]
WordBoundary(t, i) ==
    LET before == i - 1 >= 1 /\ i - 1 <= Len(t) /\ IsWord(t[i - 1])
        after  == i >= 1 /\ i <= Len(t) /\ IsWord(t[i])
    IN  before # after

\* str.count / str.replace for one character
CountChar(t, c) == Cardinality({i \in 1..Len(t) : t[i] = c})
RemoveChar(t, c) == Keep(t, {i \in 1..Len(t) : t[i] # c})
ReplaceChar(t, c, d) == [i \in 1..Len(t) |-> IF t[i] = c THEN d ELSE t[i]]

\* str.strip()
Strip(t) ==
    LET a == SpacesFrom(t, 1)
    IN  IF a = Len(t) THEN <<>>
        ELSE SubSeq(t, a + 1, Len(t) - SpacesBack(t, Len(t)))

(***************************************************************************)
(* parse_weight                                                             *)
(***************************************************************************)
\* (?:kg|kilo|kilograms?)? in the order the alternation tries them
WeightUnits ==
    << <<"k","g">>, <<"k","i","l","o">>,
       <<"k","i","l","o","g","r","a","m","s">>,
       <<"k","i","l","o","g","r","a","m">>, <<>> >>

\* (?:[.,]\d{3})* : how many groups can be taken from index i
RECURSIVE GroupsFrom(_, _)
GroupsFrom(t, i) ==
    IF i + 3 <= Len(t) /\ t[i] \in {".", ","} /\ DigitsFrom(t, i + 1) >= 3
    THEN 1 + GroupsFrom(t, i + 4)
    ELSE 0

\* \s*(?:kg|kilo|kilograms?)?\b can be matched from index e
WeightTailOK(t, e) ==
    \E w \in 0..SpacesFrom(t, e) : \E u \in 1..Len(WeightUnits) :
        /\ MatchCI(t, e + w, WeightUnits[u])
        /\ WordBoundary(t, e + w + Len(WeightUnits[u]))

\* (?:[.,]\d+)?\s*(?:kg|...)?\b from index p: the numbers of decimals that
\* let the rest of the pattern match, 0 standing for no decimal part
DecimalsAt(t, p) ==
    {d \in 0..(IF p <= Len(t) /\ t[p] \in {".", ","} THEN DigitsFrom(t, p + 1) ELSE 0) :
        WeightTailOK(t, p + (IF d > 0 THEN 1 + d ELSE 0))}

\* the ways group 1 can match at index i: <<leading digits, groups, decimals>>
WeightShapes(t, i) ==
    UNION {UNION {{<<a, g, d>> : d \in DecimalsAt(t, i + a + 4 * g)} :
                     g \in 0..GroupsFrom(t, i + a)} :
              a \in 1..Min(3, DigitsFrom(t, i))}

\* the backtracking order: greedy in each quantifier, leftmost first
ShapeBefore(a, b) ==
    \/ a[1] > b[1]
    \/ a[1] = b[1] /\ a[2] > b[2]
    \/ a[1] = b[1] /\ a[2] = b[2] /\ a[3] >= b[3]

\* the least element of a set of integers
MinOf(S) == CHOOSE x \in S : \A y \in S : x <= y

\* the shape the backtracking finds first
FirstShape(shapes) == CHOOSE a \in shapes : \A b \in shapes : ShapeBefore(a, b)

\* number of characters a shape spans
ShapeLen(sh) == sh[1] + 4 * sh[2] + (IF sh[3] > 0 THEN 1 + sh[3] ELSE 0)

\* group 1 of the match that starts at the least of the indexes in starts
WeightMatch(t, starts) ==
    IF starts = {} THEN <<>>
    ELSE SubSeq(t, MinOf(starts),
                MinOf(starts) + ShapeLen(FirstShape(WeightShapes(t, MinOf(starts)))) - 1)

\* re.search: group 1 of the first match, <<>> standing for "no match"
WeightGroup(t) == WeightMatch(t, {i \in 1..Len(t) : WeightShapes(t, i) # {}})

\* num.replace(",", ".") for one comma and no dot, else num.replace(",", "")
WeightNumber(num) ==
    IF num = <<>> THEN <<>>
    ELSE IF CountChar(num, ",") = 1 /\ CountChar(num, ".") = 0
         THEN ReplaceChar(num, ",", ".")
         ELSE RemoveChar(num, ",")

parse_weight(t) == IF t = <<>> THEN <<>> ELSE WeightNumber(WeightGroup(t))

(***************************************************************************)
(* norm_space and clean_scalar                                              *)
(***************************************************************************)
\* re.sub of every run of at least minRun (1 or 2) characters of a class by
\* one space: of a run only the first character stays, and it becomes a
\* space when the run is long enough
CollapseRuns(t, minRun, Class(_)) ==
    LET Follows(i) == i > 1 /\ Class(t[i - 1])
        Followed(i) == i < Len(t) /\ Class(t[i + 1])
    IN  Gather([i \in 1..Len(t) |->
                  IF ~Class(t[i]) THEN <<t[i]>>
                  ELSE IF Follows(i) THEN <<>>
                  ELSE IF minRun <= 1 \/ Followed(i) THEN <<" ">>
                  ELSE <<t[i]>>],
               1, Len(t))
CollapseSpaces(t, minRun) == CollapseRuns(t, minRun, IsSpace)

norm_space(t) == Strip(CollapseSpaces(t, 1))

\* re.sub(r'^\s*([.:;–\-_/\\]+)\s*', '', x)
StripLeadingPunct(t) ==
    LET w == SpacesFrom(t, 1)
        p == PunctFrom(t, w + 1)
        z == SpacesFrom(t, w + p + 1)
    IN  IF p >= 1 THEN SubSeq(t, w + p + z + 1, Len(t)) ELSE t

\* re.sub(r'[.:;–\-_/\\]+$', '', x); $ also matches before a final newline
StripTrailingPunct(t) ==
    LET n == Len(t)
    IN  IF n >= 1 /\ IsPunct(t[n]) THEN SubSeq(t, 1, n - PunctBack(t, n))
        ELSE IF n >= 2 /\ t[n] = "\n" /\ IsPunct(t[n - 1])
             THEN SubSeq(t, 1, n - 1 - PunctBack(t, n - 1)) \o <<"\n">>
             ELSE t

\* (delivery terms|incoterms|pol|pod|net weight|gross weight|shipment no)
EchoedLabels ==
    << <<"d", "e", "l", "i", "v", "e", "r", "y", " ", "t", "e", "r", "m", "s">>,
       <<"i", "n", "c", "o", "t", "e", "r", "m", "s">>,
       <<"p", "o", "l">>,
       <<"p", "o", "d">>,
       <<"n", "e", "t", " ", "w", "e", "i", "g", "h", "t">>,
       <<"g", "r", "o", "s", "s", " ", "w", "e", "i", "g", "h", "t">>,
       <<"s", "h", "i", "p", "m", "e", "n", "t", " ", "n", "o">> >>

\* end (exclusive) of label\s*[:\-–]\s* matched at the start of t, 0 if none
EchoEnd(t, lab) ==
    IF ~MatchCI(t, 1, lab) THEN 0
    ELSE LET q == Len(lab) + 1 + SpacesFrom(t, Len(lab) + 1)
         IN  IF q <= Len(t) /\ IsSepChar(t[q])
             THEN q + 1 + SpacesFrom(t, q + 1)
             ELSE 0

\* re.sub(r'^(?i)(...)\s*[:\-–]\s*', '', x): ends is the set of ends of the
\* matches of the alternatives, and the first alternative that matches wins
DropEcho(t, ends) ==
    IF DOMAIN ends = {} THEN t ELSE SubSeq(t, ends[MinOf(DOMAIN ends)], Len(t))
EchoEnds(t) ==
    [i \in {j \in 1..Len(EchoedLabels) : EchoEnd(t, EchoedLabels[j]) > 0} |->
        EchoEnd(t, EchoedLabels[i])]
StripEchoedLabel(t) == DropEcho(t, EchoEnds(t))

\* clean_scalar on a str
clean_scalar(t) ==
    Strip(StripEchoedLabel(
        Strip(StripTrailingPunct(
            CollapseSpaces(
                Strip(StripLeadingPunct(ReplaceChar(t, "NBSP", " "))), 2)))))

(***************************************************************************)
(* JSON values.  A dict keeps its insertion order: it is a sequence of      *)
(* <<key, value>> pairs with distinct keys.                                 *)
(***************************************************************************)
NoneV == [t |-> "none", v |-> <<>>]
Str(x) == [t |-> "str", v |-> x]
Num(n) == [t |-> "num", v |-> n]
Dict(items) == [t |-> "dict", v |-> items]
List(items) == [t |-> "list", v |-> items]

\* x is None
IsNone(x) == x.t = "none"
\* x in (None, "")
IsNoneOrEmpty(x) == x.t = "none" \/ (x.t = "str" /\ x.v = <<>>)
\* a == b for two JSON values that are not both containers
SameValue(a, b) == a.t = b.t /\ a.v = b.v

\* bool(x)
Truthy(x) ==
    CASE x.t = "none" -> FALSE
      [] x.t = "num" -> x.v # 0
      [] OTHER -> x.v # <<>>

\* x or None, for a str x
StrOrNone(x) == IF x = <<>> THEN NoneV ELSE Str(x)

Keys(d) == {d.v[i][1] : i \in DOMAIN d.v}
HasKey(d, k) == d.t = "dict" /\ k \in Keys(d)
\* d.get(k, default)
Get(d, k, default) ==
    IF HasKey(d, k)
    THEN d.v[CHOOSE i \in DOMAIN d.v : d.v[i][1] = k][2]
    ELSE default
\* d[k] = x
Put(d, k, x) ==
    IF HasKey(d, k)
    THEN Dict([i \in DOMAIN d.v |-> IF d.v[i][1] = k THEN <<k, x>> ELSE d.v[i]])
    ELSE Dict(Append(d.v, <<k, x>>))

K_shipper == <<"s", "h", "i", "p", "p", "e", "r">>
K_consignee == <<"c", "o", "n", "s", "i", "g", "n", "e", "e">>
K_notify == <<"n", "o", "t", "i", "f", "y">>
K_refs == <<"r", "e", "f", "s">>
K_shipping == <<"s", "h", "i", "p", "p", "i", "n", "g">>
K_cargo == <<"c", "a", "r", "g", "o">>
K_marks == <<"m", "a", "r", "k", "s">>
K_bl == <<"b", "l">>
K_name == <<"n", "a", "m", "e">>
K_address == <<"a", "d", "d", "r", "e", "s", "s">>
K_shipment_no == <<"s", "h", "i", "p", "m", "e", "n", "t", "_", "n", "o">>
K_order_no_internal ==
    <<"o", "r", "d", "e", "r", "_", "n", "o", "_", "i", "n", "t", "e",
      "r", "n", "a", "l">>
K_customer_po == <<"c", "u", "s", "t", "o", "m", "e", "r", "_", "p", "o">>
K_delivery_no == <<"d", "e", "l", "i", "v", "e", "r", "y", "_", "n", "o">>
K_customer_no == <<"c", "u", "s", "t", "o", "m", "e", "r", "_", "n", "o">>
K_loading_date ==
    <<"l", "o", "a", "d", "i", "n", "g", "_", "d", "a", "t", "e">>
K_scheduled_delivery_date ==
    <<"s", "c", "h", "e", "d", "u", "l", "e", "d", "_", "d", "e", "l",
      "i", "v", "e", "r", "y", "_", "d", "a", "t", "e">>
K_shipping_point ==
    <<"s", "h", "i", "p", "p", "i", "n", "g", "_", "p", "o", "i", "n",
      "t">>
K_incoterms == <<"i", "n", "c", "o", "t", "e", "r", "m", "s">>
K_way_of_forwarding ==
    <<"w", "a", "y", "_", "o", "f", "_", "f", "o", "r", "w", "a", "r",
      "d", "i", "n", "g">>
K_pol == <<"p", "o", "l">>
K_pod == <<"p", "o", "d">>
K_description == <<"d", "e", "s", "c", "r", "i", "p", "t", "i", "o", "n">>
K_packaging == <<"p", "a", "c", "k", "a", "g", "i", "n", "g">>
K_net_kg == <<"n", "e", "t", "_", "k", "g">>
K_gross_kg == <<"g", "r", "o", "s", "s", "_", "k", "g">>
K_carton_marks ==
    <<"c", "a", "r", "t", "o", "n", "_", "m", "a", "r", "k", "s">>
K_labelling == <<"l", "a", "b", "e", "l", "l", "i", "n", "g">>
K_type == <<"t", "y", "p", "e">>
K_confidence == <<"_", "c", "o", "n", "f", "i", "d", "e", "n", "c", "e">>
Dot == <<".">>

(***************************************************************************)
(* postprocess_cleanup                                                      *)
(***************************************************************************)
CleanupPaths ==
    << <<K_refs, K_shipment_no>>, <<K_refs, K_order_no_internal>>,
       <<K_refs, K_customer_po>>, <<K_refs, K_delivery_no>>,
       <<K_refs, K_customer_no>>, <<K_refs, K_loading_date>>,
       <<K_refs, K_scheduled_delivery_date>>,
       <<K_shipping, K_shipping_point>>, <<K_shipping, K_incoterms>>,
       <<K_shipping, K_way_of_forwarding>>,
       <<K_shipping, K_pol>>, <<K_shipping, K_pod>>,
       <<K_cargo, K_description>>,
       <<K_marks, K_carton_marks>>, <<K_marks, K_labelling>>,
       <<K_shipper, K_name>>, <<K_shipper, K_address>>,
       <<K_consignee, K_name>>, <<K_consignee, K_address>>,
       <<K_notify, K_name>>, <<K_notify, K_address>>,
       <<K_bl, K_type>> >>

INCOTERMS_SET ==
    { <<"E","X","W">>, <<"F","C","A">>, <<"C","P","T">>, <<"C","I","P">>,
      <<"D","A","P">>, <<"D","P","U">>, <<"D","D","P">>, <<"F","A","S">>,
      <<"F","O","B">>, <<"C","F","R">>, <<"C","I","F">> }

\* clean_scalar leaves anything that is not a str alone
CleanValue(x) == IF x.t = "str" THEN Str(clean_scalar(x.v)) ELSE x

\* getset, for the leaf named last of the section named sec: the leaf is
\* cleaned when it is on the list of paths and is not None
getset(sec, last, x) ==
    IF (\E i \in 1..Len(CleanupPaths) : CleanupPaths[i] = <<sec, last>>) /\ ~IsNone(x)
    THEN CleanValue(x)
    ELSE x

\* for p in paths: getset(payload, p); the paths are distinct leaves of
\* sections, so the loop cleans every leaf once
CleanPaths(pl) ==
    Dict([i \in DOMAIN pl.v |->
            LET sec == pl.v[i][1]
                cur == pl.v[i][2]
            IN  <<sec,
                  IF cur.t = "dict"
                  THEN Dict([j \in DOMAIN cur.v |->
                               <<cur.v[j][1], getset(sec, cur.v[j][1], cur.v[j][2])>>])
                  ELSE cur>>])

\* re.search(r"\b([A-Z]{3})\b", w): the first bare 3-letter uppercase token
BareTokens(w) ==
    {i \in 1..Len(w) :
        /\ i + 2 <= Len(w)
        /\ \A j \in 0..2 : w[i + j] \in UpperSet
        /\ WordBoundary(w, i)
        /\ WordBoundary(w, i + 3)}
TokenAt(w, hits) == IF hits = {} THEN <<>> ELSE SubSeq(w, MinOf(hits), MinOf(hits) + 2)
FirstBareToken(w) == TokenAt(w, BareTokens(w))

\* the incoterms rule on the shipping section, m being the token found in
\* way_of_forwarding
InferFrom(pl, shipping, w, m) ==
    IF /\ Truthy(w)
       /\ ~Truthy(Get(shipping, K_incoterms, NoneV))
       /\ m # <<>>
       /\ Upper(m) \in INCOTERMS_SET
    THEN Put(pl, K_shipping, Put(shipping, K_incoterms, Str(Upper(m))))
    ELSE pl
InferShipping(pl, shipping, w) ==
    InferFrom(pl, shipping, w, IF w.t = "str" THEN FirstBareToken(w.v) ELSE <<>>)
InferIncoterms(pl) ==
    InferShipping(pl, Get(pl, K_shipping, Dict(<<>>)),
                  Get(Get(pl, K_shipping, Dict(<<>>)), K_way_of_forwarding, NoneV))

\* w or x, for a str w and a JSON value x
Reparsed(x, w) == IF w # <<>> THEN Str(w) ELSE x
\* for k in ("net_kg", "gross_kg"): a str val becomes parse_weight(val) or val
ReparseCargo(pl, cargo) ==
    IF cargo.t # "dict" \/ ~HasKey(pl, K_cargo) THEN pl
    ELSE Put(pl, K_cargo,
             Dict([j \in DOMAIN cargo.v |->
                     IF cargo.v[j][1] \in {K_net_kg, K_gross_kg}
                        /\ cargo.v[j][2].t = "str"
                     THEN <<cargo.v[j][1],
                            Reparsed(cargo.v[j][2], parse_weight(cargo.v[j][2].v))>>
                     ELSE cargo.v[j]]))
ReparseWeights(pl) == ReparseCargo(pl, Get(pl, K_cargo, Dict(<<>>)))

RECURSIVE drop_empties(_)
drop_empties(d) ==
    IF d.t = "dict"
    THEN Dict([i \in DOMAIN d.v |->
                 <<d.v[i][1],
                   IF d.v[i][2].t = "str" /\ Strip(d.v[i][2].v) = <<>>
                   THEN NoneV
                   ELSE drop_empties(d.v[i][2])>>])
    ELSE IF d.t = "list"
    THEN List([i \in DOMAIN d.v |-> drop_empties(d.v[i])])
    ELSE d

postprocess_cleanup(pl) ==
    drop_empties(ReparseWeights(InferIncoterms(CleanPaths(pl))))

\* clean_scalar compiles r'^(?i)(...)': a global flag that is not at the
\* start of the pattern is a DeprecationWarning up to Python 3.10 and an
\* re.error from Python 3.11 on; it is reached for every str leaf cleaned
CleanupRaises(pl) ==
    \E i \in 1..Len(CleanupPaths) :
        Get(Get(pl, CleanupPaths[i][1], Dict(<<>>)),
            CleanupPaths[i][2], NoneV).t = "str"

(***************************************************************************)
(* The layout tree.  The document is {"elements": [item, ...]}; an item is  *)
(* a text node                                                              *)
(*   [kind |-> "node", Text, text, content, Bounds, PageNumber,            *)
(*    NonNumeric, PageText]                                                 *)
(* whose three text holders are JSON values, Bounds a list of numbers and   *)
(* PageNumber a number (0 when the key is missing), or a table node         *)
(*   [kind |-> "table", rows |-> <<row, ...>>]    {"Table": {"rows": ...}}  *)
(* whose rows are lists of cells [dict, text]: the cell is                  *)
(* {"content": [{"Text": text}]} when dict is TRUE, the plain str text      *)
(* otherwise.  A tree may be malformed: NonNumeric is the set of the        *)
(* positions of Bounds that hold something else than a number (a str that   *)
(* float() does not read, None), PageText says that PageNumber is a str     *)
(* int() does not read, and                                                 *)
(*   [kind |-> "badtable", Table |-> "list" | "none" | "empty"]             *)
(* is a node whose "Table" is a list, None or {} instead of a mapping with  *)
(* rows.                                                                    *)
(***************************************************************************)
\* a or b or c
FirstTruthy(a, b, c) == IF Truthy(a) THEN a ELSE IF Truthy(b) THEN b ELSE c

\* Span.__init__
Span(text, page, bounds) ==
    [text |-> norm_space(text),
     page |-> IF Len(bounds) >= 6 THEN bounds[6] ELSE page,
     x |-> IF bounds # <<>> THEN bounds[1] ELSE 0,
     y |-> IF bounds # <<>> THEN bounds[2] ELSE 0,
     w |-> IF Len(bounds) > 2 THEN bounds[3] ELSE 0,
     h |-> IF Len(bounds) > 3 THEN bounds[4] ELSE 0]

MAX_DX == 500
SAME_LINE_TOL == 6
MAX_DY == 120
X_OVERLAP_TOL == 10

Abs(n) == IF n < 0 THEN -n ELSE n

\* Span.right_of
right_of(self, other) ==
    /\ Abs(self.y - other.y) <= SAME_LINE_TOL
    /\ self.x >= other.x
    /\ self.x - other.x <= MAX_DX

\* Span.below
below(self, other) ==
    /\ self.y > other.y
    /\ self.y - other.y <= MAX_DY
    /\ Min(self.x + self.w, other.x + other.w) - Max(self.x, other.x)
          > -X_OVERLAP_TOL

\* the spans one item contributes, in the order walk() meets them
ItemSpans(item) ==
    IF item.kind = "node"
    THEN LET txt == FirstTruthy(item.Text, item.text, item.content)
             p   == IF item.PageNumber # 0 THEN item.PageNumber ELSE 1
         IN  IF txt.t = "str" THEN <<Span(txt.v, p, item.Bounds)>> ELSE <<>>
    ELSE LET RowSpans(row) ==
                 LET F[i \in 0..Len(row)] ==
                         IF i = 0 THEN <<>>
                         ELSE F[i - 1] \o (IF row[i].dict
                                           THEN <<Span(row[i].text, 1, <<>>)>>
                                           ELSE <<>>)
                 IN  F[Len(row)]
             G[i \in 0..Len(item.rows)] ==
                 IF i = 0 THEN <<>> ELSE G[i - 1] \o RowSpans(item.rows[i])
         IN  G[Len(item.rows)]

WalkSpans(tree) ==
    LET F[i \in 0..Len(tree)] ==
            IF i = 0 THEN <<>> ELSE F[i - 1] \o ItemSpans(tree[i])
    IN  F[Len(tree)]

\* key=lambda s: (s.page, s.y, s.x)
SpanKeyLess(a, b) ==
    \/ a.page < b.page
    \/ a.page = b.page /\ a.y < b.y
    \/ a.page = b.page /\ a.y = b.y /\ a.x < b.x

\* list.sort is stable: an element goes behind every element not above it
RECURSIVE SortSpans(_)
SortSpans(sp) ==
    IF sp = <<>> THEN <<>>
    ELSE LET n    == Len(sp)
             rest == SortSpans(SubSeq(sp, 1, n - 1))
             e    == sp[n]
             k    == Cardinality({i \in 1..Len(rest) : ~SpanKeyLess(e, rest[i])})
         IN  SubSeq(rest, 1, k) \o <<e>> \o SubSeq(rest, k + 1, Len(rest))

collect_spans(tree) ==
    LET NonEmpty(sp) == sp.text # <<>>
    IN  SortSpans(SelectSeq(WalkSpans(tree), NonEmpty))

\* collect_tables: one list of rows of normalised cell strings per table
collect_tables(tree) ==
    LET Rows(item) ==
            [r \in DOMAIN item.rows |->
                [c \in DOMAIN item.rows[r] |-> norm_space(item.rows[r][c].text)]]
        IsTable(item) == item.kind = "table" /\ item.rows # <<>>
        tbls == SelectSeq(tree, IsTable)
    IN  [i \in DOMAIN tbls |-> Rows(tbls[i])]

\* the text chunks one item contributes to flatten_text
ItemChunks(item) ==
    IF item.kind = "node"
    THEN LET One(x) == IF x.t = "str" THEN <<x.v>> ELSE <<>>
         IN  One(item.Text) \o One(item.text) \o One(item.content)
    ELSE LET RowChunks(row) ==
                 LET F[i \in 0..Len(row)] ==
                         IF i = 0 THEN <<>>
                         ELSE F[i - 1] \o (IF row[i].dict
                                           THEN <<row[i].text>> ELSE <<>>)
                 IN  F[Len(row)]
             G[i \in 0..Len(item.rows)] ==
                 IF i = 0 THEN <<>> ELSE G[i - 1] \o RowChunks(item.rows[i])
         IN  G[Len(item.rows)]

\* re.sub(r"[ \t]+", " ", t)
CollapseBlanks(t) ==
    LET IsBlank(c) == c \in {" ", "\t"}
    IN  CollapseRuns(t, 1, IsBlank)

\* re.sub(r"\r?\n\s*\n+", "\n", t): in a run of whitespace, what follows its
\* first newline, up to its last newline, goes
CollapseBlankLines(t) ==
    LET Gone(i) ==
            /\ IsSpace(t[i])
            /\ \E a \in (i - SpacesBack(t, i - 1))..(i - 1) : t[a] = "\n"
            /\ \E b \in i..(i + SpacesFrom(t, i) - 1) : t[b] = "\n"
    IN  Keep(t, {i \in 1..Len(t) : ~Gone(i)})

\* sep.join(chunks)
JoinWith(chunks, sep) ==
    LET F[i \in 0..Len(chunks)] ==
            IF i = 0 THEN <<>>
            ELSE IF i = 1 THEN chunks[1]
            ELSE F[i - 1] \o sep \o chunks[i]
    IN  F[Len(chunks)]

flatten_text(tree) ==
    LET F[i \in 0..Len(tree)] ==
            IF i = 0 THEN <<>> ELSE F[i - 1] \o ItemChunks(tree[i])
    IN  CollapseBlankLines(CollapseBlanks(JoinWith(F[Len(tree)], <<"\n">>)))

(***************************************************************************)
(* Labels and helpers                                                       *)
(***************************************************************************)
L_shipment_no ==
    << <<"S", "h", "i", "p", "m", "e", "n", "t", " ", "N", "o">>,
       <<"S", "h", "i", "p", "m", "e", "n", "t", " ", "N", "u", "m", "b",
         "e", "r">>,
       <<"S", "h", "i", "p", "m", "e", "n", "t", " ", "#">>,
       <<"S", "L", "I">>,
       <<"S", "h", "i", "p", "m", "e", "n", "t", " ", "R", "e", "f">>,
       <<"S", "h", "p", "t", " ", "N", "o">> >>
L_order_no_internal ==
    << <<"O", "r", "d", "e", "r", " ", "N", "o">>,
       <<"I", "n", "t", "e", "r", "n", "a", "l", " ", "O", "r", "d", "e",
         "r", " ", "N", "o">>,
       <<"O", "r", "d", "e", "r", " ", "N", "u", "m", "b", "e", "r">>,
       <<"O", "r", "d", "e", "r", " ", "#">> >>
L_customer_po ==
    << <<"C", "u", "s", "t", "o", "m", "e", "r", " ", "P", "O">>,
       <<"P", "O", " ", "N", "u", "m", "b", "e", "r">>,
       <<"P", "u", "r", "c", "h", "a", "s", "e", " ", "O", "r", "d", "e",
         "r">>,
       <<"C", "u", "s", "t", " ", "P", "O">> >>
L_delivery_no ==
    << <<"D", "e", "l", "i", "v", "e", "r", "y", " ", "N", "o">>,
       <<"D", "e", "l", "i", "v", "e", "r", "y", " ", "N", "u", "m", "b",
         "e", "r">>,
       <<"D", "e", "l", ".", " ", "N", "o">> >>
L_customer_no ==
    << <<"C", "u", "s", "t", "o", "m", "e", "r", " ", "N", "o">>,
       <<"C", "u", "s", "t", "o", "m", "e", "r", " ", "N", "u", "m", "b",
         "e", "r">>,
       <<"C", "u", "s", "t", " ", "N", "o">>,
       <<"A", "c", "c", "o", "u", "n", "t", " ", "N", "o">> >>
L_loading_date ==
    << <<"L", "o", "a", "d", "i", "n", "g", " ", "D", "a", "t", "e">>,
       <<"L", "o", "a", "d", " ", "D", "a", "t", "e">> >>
L_scheduled_delivery_date ==
    << <<"D", "e", "l", "i", "v", "e", "r", "y", " ", "D", "a", "t", "e">>,
       <<"S", "c", "h", "e", "d", "u", "l", "e", "d", " ", "D", "e", "l",
         "i", "v", "e", "r", "y", " ", "D", "a", "t", "e">>,
       <<"E", "T", "A">> >>
L_shipping_point ==
    << <<"S", "h", "i", "p", "p", "i", "n", "g", " ", "P", "o", "i", "n",
         "t">>,
       <<"L", "o", "a", "d", "i", "n", "g", " ", "P", "o", "i", "n", "t">> >>
L_incoterms ==
    << <<"I", "n", "c", "o", "t", "e", "r", "m", "s">>,
       <<"D", "e", "l", "i", "v", "e", "r", "y", " ", "T", "e", "r", "m",
         "s">>,
       <<"T", "e", "r", "m", "s", " ", "o", "f", " ", "D", "e", "l", "i",
         "v", "e", "r", "y">> >>
L_way_of_forwarding ==
    << <<"W", "a", "y", " ", "o", "f", " ", "F", "o", "r", "w", "a", "r",
         "d", "i", "n", "g">>,
       <<"M", "o", "d", "e", " ", "o", "f", " ", "T", "r", "a", "n", "s",
         "p", "o", "r", "t">>,
       <<"T", "r", "a", "n", "s", "p", "o", "r", "t", " ", "M", "o", "d",
         "e">>,
       <<"S", "h", "i", "p", "m", "e", "n", "t", " ", "M", "o", "d", "e">> >>
L_pol ==
    << <<"P", "O", "L">>,
       <<"P", "o", "r", "t", " ", "o", "f", " ", "L", "o", "a", "d", "i",
         "n", "g">>,
       <<"L", "o", "a", "d", " ", "P", "o", "r", "t">> >>
L_pod ==
    << <<"P", "O", "D">>,
       <<"P", "o", "r", "t", " ", "o", "f", " ", "D", "i", "s", "c", "h",
         "a", "r", "g", "e">>,
       <<"D", "e", "s", "t", "i", "n", "a", "t", "i", "o", "n", " ", "P",
         "o", "r", "t">>,
       <<"P", "o", "r", "t", " ", "o", "f", " ", "D", "e", "s", "t", "i",
         "n", "a", "t", "i", "o", "n">> >>
L_cargo_description ==
    << <<"C", "a", "r", "g", "o", " ", "D", "e", "s", "c", "r", "i", "p",
         "t", "i", "o", "n">>,
       <<"G", "o", "o", "d", "s", " ", "D", "e", "s", "c", "r", "i", "p",
         "t", "i", "o", "n">>,
       <<"D", "e", "s", "c", "r", "i", "p", "t", "i", "o", "n", " ", "o",
         "f", " ", "G", "o", "o", "d", "s">>,
       <<"C", "o", "m", "m", "o", "d", "i", "t", "y">> >>
L_net_weight ==
    << <<"N", "e", "t", " ", "W", "e", "i", "g", "h", "t">>,
       <<"N", "e", "t", " ", "W", "t">>,
       <<"N", "e", "t", " ", "(", "k", "g", ")">> >>
L_gross_weight ==
    << <<"G", "r", "o", "s", "s", " ", "W", "e", "i", "g", "h", "t">>,
       <<"G", "r", "o", "s", "s", " ", "W", "t">>,
       <<"G", "r", "o", "s", "s", " ", "(", "k", "g", ")">> >>
L_marks ==
    << <<"M", "a", "r", "k", "s">>,
       <<"M", "a", "r", "k", "s", " ", "&", " ", "N", "u", "m", "b", "e",
         "r", "s">>,
       <<"C", "a", "r", "t", "o", "n", " ", "M", "a", "r", "k", "s">> >>
L_labelling ==
    << <<"L", "a", "b", "e", "l", "l", "i", "n", "g">>,
       <<"L", "a", "b", "e", "l", "s">>,
       <<"L", "a", "b", "e", "l", "l", "i", "n", "g", " ", "I", "n", "s",
         "t", "r", "u", "c", "t", "i", "o", "n", "s">> >>
L_bl_type ==
    << <<"B", "/", "L", " ", "T", "y", "p", "e">>,
       <<"B", "L", " ", "T", "y", "p", "e">>,
       <<"B", "i", "l", "l", " ", "o", "f", " ", "L", "a", "d", "i", "n",
         "g", " ", "T", "y", "p", "e">>,
       <<"B", "O", "L", " ", "T", "y", "p", "e">> >>
L_shipper ==
    << <<"S", "h", "i", "p", "p", "e", "r">>,
       <<"E", "x", "p", "o", "r", "t", "e", "r">> >>
L_consignee ==
    << <<"C", "o", "n", "s", "i", "g", "n", "e", "e">>,
       <<"B", "u", "y", "e", "r">> >>
L_notify ==
    << <<"N", "o", "t", "i", "f", "y", " ", "P", "a", "r", "t", "y">>,
       <<"N", "o", "t", "i", "f", "y">> >>
L_address ==
    << <<"A", "d", "d", "r", "e", "s", "s">>,
       <<"A", "d", "d", "r">> >>

LABELS ==
    [shipment_no |-> L_shipment_no,
     order_no_internal |-> L_order_no_internal,
     customer_po |-> L_customer_po,
     delivery_no |-> L_delivery_no,
     customer_no |-> L_customer_no,
     loading_date |-> L_loading_date,
     scheduled_delivery_date |-> L_scheduled_delivery_date,
     shipping_point |-> L_shipping_point,
     incoterms |-> L_incoterms,
     way_of_forwarding |-> L_way_of_forwarding,
     pol |-> L_pol,
     pod |-> L_pod,
     cargo_description |-> L_cargo_description,
     net_weight |-> L_net_weight,
     gross_weight |-> L_gross_weight,
     marks |-> L_marks,
     labelling |-> L_labelling,
     bl_type |-> L_bl_type]

PARTY_LABELS ==
    [shipper |-> L_shipper, consignee |-> L_consignee, notify |-> L_notify]

\* re.search of an escaped literal, ignoring case
Contains(t, lit) == \E i \in 1..Len(t) : MatchCI(t, i, lit)
ContainsAny(t, labels) == \E l \in 1..Len(labels) : Contains(t, labels[l])

\* nearest_value with its two branches swapped: a span below the label is
\* preferred to a span on its line
NearestBelowFirst(spans, label_span) ==
    LET RightOf(sp) == sp.page = label_span.page /\ right_of(sp, label_span)
        Below(sp)   == sp.page = label_span.page /\ below(sp, label_span)
        candidates  == SelectSeq(spans, RightOf)
        bel         == SelectSeq(spans, Below)
        KeyLess(a, b) ==
            \/ a.y - label_span.y < b.y - label_span.y
            \/ /\ a.y - label_span.y = b.y - label_span.y
               /\ Abs(a.x - label_span.x) < Abs(b.x - label_span.x)
        first == CHOOSE i \in DOMAIN bel :
                    /\ \A j \in DOMAIN bel : ~KeyLess(bel[j], bel[i])
                    /\ \A j \in 1..(i - 1) : KeyLess(bel[i], bel[j])
    IN  IF bel # <<>> THEN Str(bel[first].text)
        ELSE IF candidates # <<>> THEN Str(candidates[1].text)
        ELSE NoneV

\* nearest_value without the sort of the spans below the label: the first
\* of them in the order of the list is returned
NearestUnsorted(spans, label_span) ==
    LET RightOf(sp) == sp.page = label_span.page /\ right_of(sp, label_span)
        Below(sp)   == sp.page = label_span.page /\ below(sp, label_span)
        candidates  == SelectSeq(spans, RightOf)
        bel         == SelectSeq(spans, Below)
    IN  IF candidates # <<>> THEN Str(candidates[1].text)
        ELSE IF bel # <<>> THEN Str(bel[1].text)
        ELSE NoneV

\* nearest_value; NoneV when there is neither a right-of nor a below span
nearest_value(spans, label_span) ==
    LET RightOf(sp) == sp.page = label_span.page /\ right_of(sp, label_span)
        Below(sp)   == sp.page = label_span.page /\ below(sp, label_span)
        candidates  == SelectSeq(spans, RightOf)
        bel         == SelectSeq(spans, Below)
        \* key=lambda s: (s.y - label_span.y, abs(s.x - label_span.x))
        KeyLess(a, b) ==
            \/ a.y - label_span.y < b.y - label_span.y
            \/ /\ a.y - label_span.y = b.y - label_span.y
               /\ Abs(a.x - label_span.x) < Abs(b.x - label_span.x)
        \* the first element of the stable sort: the earliest minimum
        first == CHOOSE i \in DOMAIN bel :
                    /\ \A j \in DOMAIN bel : ~KeyLess(bel[j], bel[i])
                    /\ \A j \in 1..(i - 1) : KeyLess(bel[i], bel[j])
    IN  IF candidates # <<>> THEN Str(candidates[1].text)
        ELSE IF bel # <<>> THEN Str(bel[first].text)
        ELSE NoneV

find_label_spans(spans, labels) ==
    LET Hit(sp) == ContainsAny(sp.text, labels)
    IN  SelectSeq(spans, Hit)

\* number of characters of t from index i on that "." matches, at most max
DotRun(t, i, max) ==
    LET nls == {j \in i..Len(t) : t[j] = "\n"}
        end == IF nls = {} THEN Len(t) + 1
               ELSE CHOOSE j \in nls : \A k \in nls : j <= k
    IN  IF i < 1 \/ i > Len(t) THEN 0 ELSE Min(max, end - i)

\* label\s*[:\-–]\s*(.{1,max}) matched with the label at index i: the start
\* of the capture, 0 when it does not match.  \s* gives whitespace back
\* until "." finds a character that is not a newline
CaptureStart(t, i, lab) ==
    IF ~MatchCI(t, i, lab) THEN 0
    ELSE LET q == i + Len(lab) + SpacesFrom(t, i + Len(lab))
         IN  IF ~(q <= Len(t) /\ IsSepChar(t[q])) THEN 0
             ELSE LET ok == {z \in 0..SpacesFrom(t, q + 1) :
                                q + 1 + z <= Len(t) /\ t[q + 1 + z] # "\n"}
                  IN  IF ok = {} THEN 0
                      ELSE q + 1 + (CHOOSE z \in ok : \A y \in ok : y <= z)

\* the match re.search reports: the leftmost, and there the first alternative
FirstHit(hits) ==
    CHOOSE a \in hits : \A b \in hits :
        a[1] < b[1] \/ (a[1] = b[1] /\ a[2] <= b[2])

\* group 1 when it starts at index c
CaptureFrom(t, c, max) == Str(SubSeq(t, c, c + DotRun(t, c, max) - 1))

\* group 1 of the first of the matches hits, pairs <<index, label>>
CaptureAt(t, labels, max, hits) ==
    IF hits = {} THEN NoneV
    ELSE CaptureFrom(t, CaptureStart(t, FirstHit(hits)[1], labels[FirstHit(hits)[2]]),
                     max)

\* re.search(rf"(?:l1|l2|...)\s*[:\-–]\s*(.{{1,max}})", t, re.I): group 1,
\* or NoneV when nothing matches
LabelledCapture(t, labels, max) ==
    CaptureAt(t, labels, max,
              {h \in (1..Len(t)) \X (1..Len(labels)) :
                  CaptureStart(t, h[1], labels[h[2]]) > 0})

\* (?:Address|Addr)\s*[:\-–]\s*(.+) with the word at index j: the index of
\* the separator, 0 when it does not match
AddressSepAt(t, j, word) ==
    IF ~MatchCI(t, j, word) THEN 0
    ELSE LET q == j + Len(word) + SpacesFrom(t, j + Len(word))
         IN  IF q < Len(t) /\ IsSepChar(t[q]) THEN q ELSE 0

\* rf"{tag}.*?(?:Address|Addr)\s*[:\-–]\s*(.+)" with re.S: the matches, as
\* <<index of the tag, index of the word, which word>>
AddressHits(t, tag) ==
    {h \in {i \in 1..Len(t) : MatchCI(t, i, tag)} \X (1..Len(t)) \X {1, 2} :
        /\ h[2] >= h[1] + Len(tag)
        /\ AddressSepAt(t, h[2], L_address[h[3]]) > 0}

\* leftmost tag, then the lazy .*?, then the order of the alternatives
FirstAddressHit(hits) ==
    CHOOSE a \in hits : \A b \in hits :
        \/ a[1] < b[1]
        \/ a[1] = b[1] /\ a[2] < b[2]
        \/ a[1] = b[1] /\ a[2] = b[2] /\ a[3] <= b[3]

\* norm_space(m2.group(1)) if m2 else None
BlockAddress(t, hits) ==
    IF hits = {} THEN NoneV
    ELSE Str(norm_space(SubSeq(t,
             AddressSepAt(t, FirstAddressHit(hits)[2],
                          L_address[FirstAddressHit(hits)[3]]) + 1,
             Len(t))))

\* m.group(1).strip() if m else None
BlockName(m) == IF m = NoneV THEN NoneV ELSE Str(Strip(m.v))

\* extract_party_block: <<name, addr>>, each a str or NoneV
extract_party_block(t, tag) ==
    <<BlockName(LabelledCapture(t, <<tag>>, Len(t))),
      BlockAddress(t, AddressHits(t, tag))>>

MAX_KEY_LEN == 60
MAX_VALUE_LEN == 200

\* re.match(r"(.{2,60})\s*[:\-–]\s*(.{1,200})$", joined): <<group 1, group 2>>
\* or <<>>; the first group is as long as it can be
JoinedPair(joined) ==
    LET n == Len(joined)
        SepAfter(k) == k + 1 + SpacesFrom(joined, k + 1)
        ok == {k \in 2..Min(MAX_KEY_LEN, n) :
                  LET q == SepAfter(k)
                  IN  /\ q <= n /\ IsSepChar(joined[q])
                      /\ DotRun(joined, 1, n) = n
                      /\ \E z \in 0..SpacesFrom(joined, q + 1) :
                            n - q - z >= 1 /\ n - q - z <= MAX_VALUE_LEN}
    IN  IF ok = {} THEN <<>>
        ELSE LET k == CHOOSE a \in ok : \A b \in ok : b <= a
             IN  <<SubSeq(joined, 1, k), SubSeq(joined, SepAfter(k) + 1, n)>>

\* the branch of parse_tables_for_pairs for rows of more than two cells
PutJoined(kv, m) ==
    IF m # <<>> THEN Put(kv, norm_space(m[1]), Str(norm_space(m[2]))) ELSE kv

\* what one row of normalised cells does to the key/value map
PutCells(kv, cells) ==
    IF Len(cells) = 2
    THEN IF Len(cells[1]) <= MAX_KEY_LEN /\ Len(cells[2]) <= MAX_VALUE_LEN
         THEN Put(kv, cells[1], Str(cells[2]))
         ELSE kv
    ELSE IF Len(cells) > 2
    THEN PutJoined(kv, JoinedPair(JoinWith(cells, <<" ">>)))
    ELSE kv

\* cells = [norm_space(c) for c in row]
RowPair(kv, row) == PutCells(kv, [c \in DOMAIN row |-> norm_space(row[c])])

\* the rows of all tables, in order
AllRows(tables) ==
    LET Rows[i \in 0..Len(tables)] ==
            IF i = 0 THEN <<>> ELSE Rows[i - 1] \o tables[i]
    IN  Rows[Len(tables)]

PairsOfRows(rows) ==
    LET F[i \in 0..Len(rows)] ==
            IF i = 0 THEN Dict(<<>>) ELSE RowPair(F[i - 1], rows[i])
    IN  F[Len(rows)]

parse_tables_for_pairs(tables) == PairsOfRows(AllRows(tables))

(***************************************************************************)
(* Core extraction                                                          *)
(***************************************************************************)
\* tier 1 of pick_from: the rows whose key matches, as <<synonym, row>>
TableHits(table_kv, labels) ==
    {h \in (1..Len(labels)) \X (1..Len(table_kv.v)) :
        Contains(table_kv.v[h[2]][1], labels[h[1]])}

\* pick_from with the proximity tier consulted before the table tier
PickTiersProximityFirst(table_kv, hits, v, m) ==
    IF Truthy(v) THEN v.v
    ELSE IF hits # {} THEN table_kv.v[FirstHit(hits)[2]][2].v
    ELSE IF ~IsNone(m) THEN Strip(m.v)
    ELSE <<>>

\* the tiers of pick_from in order: the table row of the first synonym that
\* has one, else the value near the first label span, else the labelled
\* capture of the flat text, else ""
PickTiers(table_kv, hits, v, m) ==
    IF hits # {} THEN table_kv.v[FirstHit(hits)[2]][2].v
    ELSE IF Truthy(v) THEN v.v
    ELSE IF ~IsNone(m) THEN Strip(m.v)
    ELSE <<>>

\* lsp = find_label_spans(...); nearest_value(spans, lsp[0]) if lsp
FirstNearest(spans, lsp) ==
    IF lsp # <<>> THEN nearest_value(spans, lsp[1]) ELSE NoneV

\* pick_from: the str it returns
pick_from(spans, text, table_kv, labels, max_chars) ==
    PickTiers(table_kv, TableHits(table_kv, labels),
              FirstNearest(spans, find_label_spans(spans, labels)),
              LabelledCapture(text, labels, max_chars))

\* sum of the squares of the offsets: orders spans as math.hypot does
Dist2(a, b) == (a.x - b.x) * (a.x - b.x) + (a.y - b.y) * (a.y - b.y)

\* min(addr_candidates, key=distance to lab): the earliest minimum
NearestAddress(lab, addr_candidates) ==
    CHOOSE i \in DOMAIN addr_candidates :
        /\ \A j \in DOMAIN addr_candidates :
              Dist2(addr_candidates[i], lab) <= Dist2(addr_candidates[j], lab)
        /\ \A j \in 1..(i - 1) :
              Dist2(addr_candidates[i], lab) < Dist2(addr_candidates[j], lab)

\* [s for s in find_label_spans(spans, ["Address","Addr"]) if s.page == lab.page]
AddressCandidates(spans, lab) ==
    LET SamePage(sp) == sp.page = lab.page
    IN  SelectSeq(find_label_spans(spans, L_address), SamePage)

AddressNear(spans, lab, addr_candidates) ==
    IF addr_candidates # <<>>
    THEN nearest_value(spans, addr_candidates[NearestAddress(lab, addr_candidates)])
    ELSE NoneV

\* the address found by proximity, for the label spans of one role
PartyAddress(spans, label_spans) ==
    IF label_spans # <<>>
    THEN AddressNear(spans, label_spans[1], AddressCandidates(spans, label_spans[1]))
    ELSE NoneV

\* x or None
OrNone(x) == IF Truthy(x) THEN x ELSE NoneV

\* if not name and not addr: name, addr = blk[0] or name, blk[1] or addr
PartyDict(name, addr, blk) ==
    Dict(<< <<K_name, OrNone(IF Truthy(name) THEN name ELSE blk[1])>>,
            <<K_address,
              OrNone(IF Truthy(name) \/ Truthy(addr) THEN addr ELSE blk[2])>> >>)

\* the party loop of extract_fields for one role: {"name": ..., "address": ...}
PartyBlock(spans, text, labels) ==
    PartyDict(OrNone(FirstNearest(spans, find_label_spans(spans, labels))),
              OrNone(PartyAddress(spans, find_label_spans(spans, labels))),
              extract_party_block(text, labels[1]))

\* the max_chars argument of each call of pick_from
MAX_CHARS ==
    [shipment_no |-> 120, order_no_internal |-> 120, customer_po |-> 120,
     delivery_no |-> 120, customer_no |-> 120, loading_date |-> 20,
     scheduled_delivery_date |-> 20, shipping_point |-> 120,
     incoterms |-> 120, way_of_forwarding |-> 120, pol |-> 120, pod |-> 120,
     cargo_description |-> 220, net_weight |-> 60, gross_weight |-> 60,
     marks |-> 220, labelling |-> 140, bl_type |-> 50]

\* net_kg or (net_raw or None), net_kg being the parsed weight
WeightOr(raw, kg) == IF kg # <<>> THEN Str(kg) ELSE StrOrNone(raw)
\* net_kg = parse_weight(net_raw) if net_raw else ""
WeightField(raw) == WeightOr(raw, IF raw # <<>> THEN parse_weight(raw) ELSE <<>>)

\* the payload, from the party blocks and the strs pick_from returned
FieldsDict(party, raw) ==
    Dict(<<
      <<K_shipper, party.shipper>>,
      <<K_consignee, party.consignee>>,
      <<K_notify, party.notify>>,
      <<K_refs, Dict(<<
         <<K_shipment_no, StrOrNone(raw.shipment_no)>>,
         <<K_order_no_internal, StrOrNone(raw.order_no_internal)>>,
         <<K_customer_po, StrOrNone(raw.customer_po)>>,
         <<K_delivery_no, StrOrNone(raw.delivery_no)>>,
         <<K_customer_no, StrOrNone(raw.customer_no)>>,
         <<K_loading_date, StrOrNone(raw.loading_date)>>,
         <<K_scheduled_delivery_date, StrOrNone(raw.scheduled_delivery_date)>> >>)>>,
      <<K_shipping, Dict(<<
         <<K_shipping_point, StrOrNone(raw.shipping_point)>>,
         <<K_incoterms, StrOrNone(Upper(raw.incoterms))>>,
         <<K_way_of_forwarding, StrOrNone(raw.way_of_forwarding)>>,
         <<K_pol, StrOrNone(raw.pol)>>,
         <<K_pod, StrOrNone(raw.pod)>> >>)>>,
      <<K_cargo, Dict(<<
         <<K_description, StrOrNone(raw.cargo_description)>>,
         <<K_packaging, NoneV>>,
         <<K_net_kg, WeightField(raw.net_weight)>>,
         <<K_gross_kg, WeightField(raw.gross_weight)>> >>)>>,
      <<K_marks, Dict(<<
         <<K_carton_marks, StrOrNone(raw.marks)>>,
         <<K_labelling, StrOrNone(raw.labelling)>> >>)>>,
      <<K_bl, Dict(<< <<K_type, StrOrNone(raw.bl_type)>> >>)>> >>)

\* Span.__init__ raises: bounds[1] of a list of one entry (IndexError),
\* float() of an entry among the first four or int() of the sixth that is
\* not a number (ValueError, TypeError)
SpanRaises(bounds, nonNumeric) ==
    \/ Len(bounds) >= 6 /\ 6 \in nonNumeric
    \/ Len(bounds) = 1
    \/ bounds # <<>> /\ (1 \in nonNumeric \/ 2 \in nonNumeric)
    \/ Len(bounds) > 2 /\ 3 \in nonNumeric
    \/ Len(bounds) > 3 /\ 4 \in nonNumeric

\* walk of collect_spans raises at this item: int(p) or Span(...) of a node
\* that has a str text
ItemSpansRaise(item) ==
    /\ item.kind = "node"
    /\ FirstTruthy(item.Text, item.text, item.content).t = "str"
    /\ (item.PageText \/ SpanRaises(item.Bounds, item.NonNumeric))

\* walk of collect_tables raises at this item: tbl.get of a list or of the
\* None that (node.get("Table") or node.get("table")) is for None and {}
ItemTablesRaise(item) == item.kind = "badtable"

\* extract_fields raises out of collect_spans or collect_tables
ExtractRaises(tree) ==
    \E i \in 1..Len(tree) : ItemSpansRaise(tree[i]) \/ ItemTablesRaise(tree[i])

\* extract_fields once spans, text and table_kv are collected
ExtractFrom(spans, text, table_kv) ==
    FieldsDict([role \in DOMAIN PARTY_LABELS |->
                   PartyBlock(spans, text, PARTY_LABELS[role])],
               [k \in DOMAIN LABELS |->
                   pick_from(spans, text, table_kv, LABELS[k], MAX_CHARS[k])])

extract_fields(tree) ==
    ExtractFrom(collect_spans(tree), flatten_text(tree),
                parse_tables_for_pairs(collect_tables(tree)))

(***************************************************************************)
(* Optional LLM refinement, confidence map, vision assist                   *)
(***************************************************************************)
\* deep_merge of llm_refine
RECURSIVE deep_merge(_, _)
deep_merge(a, b) ==
    IF a.t = "dict" /\ b.t = "dict"
    THEN LET F[i \in 0..Len(b.v)] ==
                 IF i = 0 THEN a
                 ELSE Put(F[i - 1], b.v[i][1],
                          deep_merge(Get(a, b.v[i][1], NoneV), b.v[i][2]))
         IN  F[Len(b.v)]
    ELSE IF ~IsNoneOrEmpty(b) THEN b ELSE a

\* the confidence of one leaf, in hundredths
LeafConfidence(x) ==
    IF x.t = "str" /\ Strip(x.v) # <<>> THEN 95
    ELSE IF ~IsNoneOrEmpty(x) THEN 60
    ELSE 0

\* key = f"{prefix}.{k}"[1:] if prefix else k
MarkKey(prefix, k) == IF prefix # <<>> THEN Tail(prefix \o Dot \o k) ELSE k

\* mark(d, prefix), threading the conf dict through the walk
RECURSIVE mark(_, _, _)
mark(d, prefix, conf0) ==
    LET F[i \in 0..Len(d.v)] ==
            IF i = 0 THEN conf0
            ELSE LET key == MarkKey(prefix, d.v[i][1])
                     x   == d.v[i][2]
                 IN  IF x.t = "dict" THEN mark(x, key, F[i - 1])
                     ELSE Put(F[i - 1], key, Num(LeafConfidence(x)))
    IN  F[Len(d.v)]

LOW_THRESHOLD == 80

\* the curated keys that may go to the vision assist
VisionKeys ==
    { K_refs \o Dot \o K_shipment_no, K_shipping \o Dot \o K_incoterms,
      K_shipping \o Dot \o K_pol, K_shipping \o Dot \o K_pod,
      K_cargo \o Dot \o K_net_kg, K_cargo \o Dot \o K_gross_kg,
      K_shipper \o Dot \o K_name, K_consignee \o Dot \o K_name,
      K_notify \o Dot \o K_name }

\* low = [k for k, v in conf.items() if k in (...) and v < 0.8]
LowKeys(cf) ==
    LET IsLow(kv) == kv[1] \in VisionKeys /\ kv[2].v < LOW_THRESHOLD
        sel == SelectSeq(cf.v, IsLow)
    IN  [i \in DOMAIN sel |-> sel[i][1]]

\* str.split(".")
RECURSIVE Split(_)
Split(t) ==
    LET dots == {i \in 1..Len(t) : t[i] = "."}
    IN  IF dots = {} THEN <<t>>
        ELSE LET i == CHOOSE x \in dots : \A y \in dots : x <= y
             IN  <<SubSeq(t, 1, i - 1)>> \o Split(SubSeq(t, i + 1, Len(t)))

\* set_dotted of llm_vision_fix, on the list of path parts
RECURSIVE set_dotted(_, _, _)
set_dotted(o, parts, value) ==
    IF Len(parts) = 1 THEN Put(o, parts[1], value)
    ELSE LET cur == Get(o, parts[1], NoneV)
             sub == IF cur.t = "dict" THEN cur ELSE Dict(<<>>)
         IN  Put(o, parts[1], set_dotted(sub, Tail(parts), value))

EndsWith(t, suffix) ==
    Len(t) >= Len(suffix) /\ SubSeq(t, Len(t) - Len(suffix) + 1, Len(t)) = suffix

\* re.findall(r"\b(EXW|...|CIF)\b", w)[0], <<>> when the list is empty
IncotermTokens(w) ==
    {i \in 1..Len(w) :
        /\ i + 2 <= Len(w)
        /\ SubSeq(w, i, i + 2) \in INCOTERMS_SET
        /\ WordBoundary(w, i)
        /\ WordBoundary(w, i + 3)}
FirstIncoterm(w) == TokenAt(w, IncotermTokens(w))

\* if key.endswith("incoterms"): m = re.findall(...); if m: val = m[0]
VisionIncoterm(key, x) ==
    IF EndsWith(key, K_incoterms)
    THEN Reparsed(x, FirstIncoterm(Upper(x.v)))
    ELSE x

\* if key.endswith(("net_kg","gross_kg")): val = parse_weight(val) or val
VisionWeight(key, x) ==
    IF EndsWith(key, K_net_kg) \/ EndsWith(key, K_gross_kg)
    THEN Reparsed(x, parse_weight(x.v))
    ELSE x

\* the body of the loop of llm_vision_fix for one key; reply is the "value"
\* of the model's answer, or [t |-> "error"] when the call or the parsing of
\* its answer raised
VisionStep(pl, key, reply) ==
    IF reply.t = "error" \/ ~Truthy(reply) THEN pl
    ELSE IF reply.t # "str"
            /\ (EndsWith(key, K_incoterms) \/ EndsWith(key, K_net_kg)
                  \/ EndsWith(key, K_gross_kg))
    THEN pl    \* val.upper() or re.search raises; the key is skipped
    ELSE set_dotted(pl, Split(key), VisionWeight(key, VisionIncoterm(key, reply)))

\* the loop of llm_vision_fix over low_keys, replies[i] answering low_keys[i]
llm_vision_fix(pl, low_keys, replies) ==
    LET F[i \in 0..Len(low_keys)] ==
            IF i = 0 THEN pl
            ELSE VisionStep(F[i - 1], low_keys[i], replies[i])
    IN  F[Len(low_keys)]

(***************************************************************************)
(* Inputs                                                                   *)
(***************************************************************************)
MaxItems == 3
MaxWeightLen == 3
MaxNear == 2

Node(txt, content, bounds) ==
    [kind |-> "node", Text |-> Str(txt), text |-> NoneV, content |-> content,
     Bounds |-> bounds, PageNumber |-> 0, NonNumeric |-> {}, PageText |-> FALSE]
\* the node {"Table": [...]}
BadTable == [kind |-> "badtable", Table |-> "list"]
Cell(isDict, txt) == [dict |-> isDict, text |-> txt]

T_ShipmentNo == <<"S", "h", "i", "p", "m", "e", "n", "t", " ", "N", "o">>
T_SHP_2024_001 == <<"S", "H", "P", "-", "2", "0", "2", "4", "-", "0", "0", "1">>
T_T1 == <<"T", "-", "1">>

NodePool ==
    << Node(T_ShipmentNo, NoneV, <<0, 10, 50, 8>>),
       Node(T_SHP_2024_001, NoneV, <<120, 10, 50, 8>>),
       Node(<<"S", "H", "P", "-", "7">>,
            NoneV, <<20, 13, 50, 8>>),
       Node(<<"Z", "-", "1">>,
            NoneV, <<40, 8, 50, 8>>),
       Node(<<"X", "-", "9">>,
            NoneV, <<10, 30, 50, 8>>),
       Node(<<"N", "e", "t", " ", "W", "e", "i", "g", "h", "t">>,
            NoneV, <<0, 150, 50, 8>>),
       Node(<<"1", ".", "2", "3", "4", ",", "5", "0", " ", "k", "g">>,
            NoneV, <<120, 150, 50, 8>>),
       Node(<<"M", "o", "d", "e", " ", "o", "f", " ", "T", "r", "a", "n", "s", "p", "o", "r", "t">>,
            NoneV, <<0, 300, 50, 8>>),
       Node(<<"m", "e", "m", "o">>,
            Str(<<"S", "h", "i", "p", "m", "e", "n", "t", " ", "N", "o", ":", " ", "F", "-", "1", " ", ".", "\n", "B", "/", "L", " ", "T", "y", "p", "e", " ", "-", " ", "O", "R", "I", "G", "I", "N", "A", "L">>), <<>>),
       Node(<<"S", "h", "i", "p", "p", "e", "r">>,
            NoneV, <<0, 10, 50, 8, 0, 2>>),
       Node(<<" ", " ">>,
            NoneV, <<5, 10, 50, 8>>),
       Node(<<"Q", "-", "1">>, NoneV, <<7>>),
       [Node(<<"Q", "-", "2">>, NoneV, <<30, 10, 50, 8>>)
           EXCEPT !.NonNumeric = {2}],
       [Node(<<"Q", "-", "3">>, NoneV, <<>>) EXCEPT !.PageText = TRUE],
       BadTable >>

RowPool ==
    << << Cell(FALSE, T_ShipmentNo), Cell(FALSE, T_T1) >>,
       << Cell(FALSE, <<"S", "h", "i", "p", "m", "e", "n", "t", " ", " ", "R", "e", "f">>), Cell(FALSE, <<>>) >>,
       << Cell(TRUE, <<"I", "n", "c", "o", "t", "e", "r", "m", "s">>), Cell(TRUE, <<"c", "i", "p", " ", "A", "s", "p", "r", "o", "p", "y", "r", "g", "o", "s">>) >>,
       << Cell(FALSE, <<"N", "e", "t", " ", "W", "e", "i", "g", "h", "t">>), Cell(FALSE, <<"1", ",", "2", "3", "4", ",", "5", "6", "7", " ", "k", "g">>) >>,
       << Cell(FALSE, <<"W", "a", "y", " ", "o", "f", " ", "F", "o", "r", "w", "a", "r", "d", "i", "n", "g">>), Cell(FALSE, <<":">>), Cell(FALSE, <<"S", "E", "A", " ", "F", "O", "B">>) >>,
       << Cell(FALSE, <<"S", "h", "p", "t", " ", "N", "o">>), Cell(FALSE, <<"-", " ", ".">>) >> >>

\* the elements of pool at the indexes in S, in the order of the pool
RECURSIVE Pick(_, _)
Pick(pool, S) ==
    IF S = {} THEN <<>>
    ELSE LET i == CHOOSE x \in S : \A y \in S : x <= y
         IN  <<pool[i]>> \o Pick(pool, S \ {i})

\* the "elements" of a document: text nodes, then one table of the rows
TableOf(rows) ==
    IF rows = <<>> THEN <<>> ELSE <<[kind |-> "table", rows |-> rows]>>

\* the subsets of S of at most n elements
RECURSIVE SubsetsUpTo(_, _)
SubsetsUpTo(S, n) ==
    IF n = 0 THEN {{}}
    ELSE LET smaller == SubsetsUpTo(S, n - 1)
         IN  smaller \cup {X \cup {e} : X \in smaller, e \in S}

\* the documents of at most MaxItems items, an item being a text node or a
\* table row: item i is node i, or row i - Len(NodePool)
Docs ==
    {Pick(NodePool, c \cap (1..Len(NodePool)))
        \o TableOf(Pick(RowPool, {i - Len(NodePool) : i \in c \ (1..Len(NodePool))})) :
        c \in SubsetsUpTo(1..(Len(NodePool) + Len(RowPool)), MaxItems)}

\* the documents extract_fields returns a candidate document for
GoodDocs == {d \in Docs : ~ExtractRaises(d)}

\* what json.loads of the language model's answer may be
FixedPool ==
    << Dict(<<>>),
      Dict(<< <<K_refs, Dict(<< <<K_shipment_no, Str(<<"L", "L", "M", "-", "1">>)>> >>)>> >>),
      Dict(<< <<K_refs, Dict(<< <<K_shipment_no, Str(<<>>)>> >>)>> >>),
      Dict(<< <<K_refs, Dict(<< <<K_shipment_no, Str(<<" ">>)>> >>)>> >>),
      Dict(<< <<K_refs, Dict(<< <<K_shipment_no, NoneV>> >>)>> >>),
      Dict(<< <<K_refs, Dict(<< <<K_shipment_no, Dict(<<>>)>> >>)>> >>),
      Dict(<< <<K_refs, Str(<<"s", "c", "a", "l", "a", "r">>)>> >>),
      Dict(<< <<<<"n", "o", "t", "e">>, Str(<<"o", "k">>)>> >>),
      Dict(<< <<K_bl, Dict(<< <<K_type, Str(<<"O", "R", "I", "G", "I", "N", "A", "L">>)>> >>)>> >>),
      Dict(<< <<K_cargo, Dict(<< <<K_net_kg, Num(12)>> >>)>> >>),
      Dict(<< <<K_refs \o Dot \o K_shipment_no, Str(<<>>)>>,
              <<K_shipping \o Dot \o K_incoterms, NoneV>> >>),
      List(<<>>) >>

\* what the "value" of the vision model's answer may be
VisionReplies ==
    << [t |-> "error"], Str(<<>>), Str(<<" ">>), Str(<<"V", "-", "1">>), Str(<<"f", "o", "b", " ", "t", "e", "r", "m", "s">>),
      List(<<>>), Num(7) >>

WeightAlphabet == {"1", "2", ",", ".", " ", "k", "g"}

RECURSIVE StrsUpTo(_, _)
StrsUpTo(alphabet, n) ==
    IF n = 0 THEN {<<>>}
    ELSE LET shorter == StrsUpTo(alphabet, n - 1)
         IN  shorter \cup {Append(t, c) : t \in shorter, c \in alphabet}

W_123c45_kg == <<"1", "2", "3", ",", "4", "5", " ", "k", "g">>
W_1d234c56kg == <<"1", ".", "2", "3", "4", ",", "5", "6", "k", "g">>
W_1d234c50_kg == <<"1", ".", "2", "3", "4", ",", "5", "0", " ", "k", "g">>
W_no_numbers_here ==
    <<"n", "o", " ", "n", "u", "m", "b", "e", "r", "s", " ", "h", "e", "r", "e">>
W_1c234c567 == <<"1", ",", "2", "3", "4", ",", "5", "6", "7">>

WeightExamples ==
    { W_123c45_kg, W_1d234c56kg, W_1d234c50_kg, W_no_numbers_here, W_1c234c567,
      <<"1", "2", "3", "4", ".", "5", "6">>,
      <<"1", "2", " ", "K", "i", "l", "o", "g", "r", "a", "m", "s">> }

WeightInputs == StrsUpTo(WeightAlphabet, MaxWeightLen) \cup WeightExamples

\* d[sec][leaf], None when either key is missing
Leaf(d, sec, leaf) == Get(Get(d, sec, Dict(<<>>)), leaf, NoneV)
\* d[sec][leaf] = x
SetLeaf(d, sec, leaf, x) == Put(d, sec, Put(Get(d, sec, Dict(<<>>)), leaf, x))

\* the candidate document of a layout tree without elements: the fixed
\* schema with every field None
EmptyCandidate == extract_fields(<<>>)

\* the <<section, field>> keys of the fixed schema
FieldKeys ==
    UNION {{<<EmptyCandidate.v[i][1], EmptyCandidate.v[i][2].v[j][1]>> :
               j \in DOMAIN EmptyCandidate.v[i][2].v} :
           i \in DOMAIN EmptyCandidate.v}
\* "section.field"
DottedKey(k) == k[1] \o Dot \o k[2]

\* candidate documents built by hand: the schema with four fields set
ShipmentNoPool ==
    { NoneV, Str(<<"S", "H", "P", "-", "1">>), Str(<<"a", "b", "c", ".", " ", "-">>),
      Str(<<"P", "O", "L", ":", " ", "-", "x">>), Str(<<" ", " ">>) }
ForwardingPool ==
    { NoneV, Str(<<"S", "E", "A", " ", "F", "O", "B">>), Str(<<"F", "O", "B">>),
      Str(<<"A", "I", "R">>) }
IncotermsPool == { NoneV, Str(<<>>), Str(<<"c", "i", "p">>) }
NetKgPool ==
    { NoneV, Str(W_1c234c567), Str(W_1d234c50_kg), Str(<<"1", "2", " ", "k", "g">>),
      Str(<<"k", "g">>) }

HandCandidate(no, way, inco, net) ==
    SetLeaf(SetLeaf(SetLeaf(SetLeaf(EmptyCandidate,
        K_refs, K_shipment_no, no),
        K_shipping, K_way_of_forwarding, way),
        K_shipping, K_incoterms, inco),
        K_cargo, K_net_kg, net)

\* the candidate documents postprocess_cleanup is called on: what
\* extract_fields returns for the documents, and the hand-built ones
Candidates ==
    {extract_fields(d) : d \in GoodDocs}
      \cup {HandCandidate(no, way, inco, net) :
               no \in ShipmentNoPool, way \in ForwardingPool,
               inco \in IncotermsPool, net \in NetKgPool}

\* spans around a label span, on the edges of the windows of right_of and
\* below
NearXs == <<0, 20, 79, 80, 520, 521>>
NearYs == <<3, 4, 10, 11, 16, 17, 130, 131>>
NearXNames == <<"a", "b", "c", "d", "e", "f">>
NearYNames == <<"1", "2", "3", "4", "5", "6", "7", "8">>
LabelSpan == Span(T_ShipmentNo, 1, <<20, 10, 50, 8>>)
NearPool ==
    [n \in 1..(Len(NearXs) * Len(NearYs) + 1) |->
        IF n > Len(NearXs) * Len(NearYs)
        THEN Span(<<"p", "2">>, 2, <<60, 10, 50, 8>>)
        ELSE LET i == ((n - 1) % Len(NearXs)) + 1
                 j == ((n - 1) \div Len(NearXs)) + 1
             IN  Span(<<NearXNames[i], NearYNames[j]>>, 1,
                      <<NearXs[i], NearYs[j], 50, 8>>)]

\* the sorted span lists nearest_value is called on: at most MaxNear spans
\* around the label span, with the label span among them and without it
SpanLists ==
    {SortSpans(<<LabelSpan>> \o Pick(NearPool, S)) :
        S \in SubsetsUpTo(1..Len(NearPool), MaxNear)}
      \cup {SortSpans(Pick(NearPool, S)) :
               S \in SubsetsUpTo(1..Len(NearPool), MaxNear)}

(***************************************************************************)
(* The web application (src/app/main.py): the state its routes and its      *)
(* background tasks share                                                   *)
(***************************************************************************)
MaxJobs == 2
MaxPolls == 2

\* the job ids upload may draw
Jobs == 1..MaxJobs

\* no upload has been made
NoJobs ==
    /\ JOBS = <<>>
    /\ task = [j \in Jobs |-> "none"]
    /\ polls = [j \in Jobs |-> 0]
    /\ pdfs = {}
    /\ template = FALSE
    /\ resp = [code |-> 0, job |-> 0, status |-> "none"]

(***************************************************************************)
(* main: one run of the command line entry point                            *)
(***************************************************************************)
Init ==
    /\ NoJobs
    /\ pc = "start"
    /\ doc \in Docs
    /\ payload = NoneV
    /\ conf = Dict(<<>>)
    /\ low = <<>>
    /\ fixed = NoneV
    /\ prev = NoneV
    /\ s = <<>>
    /\ val = <<>>

\* payload = extract_fields(doc)
Extract ==
    /\ pc = "start"
    /\ ~ExtractRaises(doc)
    /\ payload' = extract_fields(doc)
    /\ pc' = "extracted"
    /\ UNCHANGED <<avars, doc, conf, low, fixed, prev, s, val>>

\* extract_fields raises out of main: the layout tree is malformed
ExtractError ==
    /\ pc = "start"
    /\ ExtractRaises(doc)
    /\ pc' = "extract_raised"
    /\ UNCHANGED <<avars, mvars, prev, s, val>>

\* payload = postprocess_cleanup(payload)
Cleanup ==
    /\ pc = "extracted"
    /\ prev' = payload
    /\ payload' = postprocess_cleanup(payload)
    /\ pc' = "cleaned"
    /\ UNCHANGED <<avars, doc, conf, low, fixed, s, val>>

\* postprocess_cleanup raises re.error out of main (Python 3.11 and later)
CleanupError ==
    /\ pc = "extracted"
    /\ CleanupRaises(payload)
    /\ pc' = "raised"
    /\ UNCHANGED <<avars, mvars, prev, s, val>>

\* llm_refine without OPENAI_API_KEY, or when the request or the parsing of
\* its answer raises: the payload is returned as it is
RefineSkipped ==
    /\ pc = "cleaned"
    /\ prev' = payload
    /\ pc' = "refined"
    /\ UNCHANGED <<avars, mvars, s, val>>

\* llm_refine merging the model's answer
RefineMerged ==
    /\ pc = "cleaned"
    /\ \E a \in DOMAIN FixedPool :
          /\ fixed' = FixedPool[a]
          /\ payload' = deep_merge(payload, FixedPool[a])
    /\ prev' = payload
    /\ pc' = "refined"
    /\ UNCHANGED <<avars, doc, conf, low, s, val>>

\* mark(payload); payload["_confidence"] = conf; low = [...]
Score ==
    /\ pc = "refined"
    /\ payload.t = "dict"
    /\ conf' = mark(payload, <<>>, Dict(<<>>))
    /\ payload' = Put(payload, K_confidence, conf')
    /\ low' = LowKeys(conf')
    /\ pc' = "scored"
    /\ UNCHANGED <<avars, doc, fixed, prev, s, val>>

\* mark(payload) raises AttributeError out of main: llm_refine returned a
\* value that has no items()
ScoreError ==
    /\ pc = "refined"
    /\ payload.t # "dict"
    /\ pc' = "mark_raised"
    /\ UNCHANGED <<avars, mvars, prev, s, val>>

\* llm_vision_fix returning the payload at once: no pdf_path, VISION_ASSIST
\* not "1", no OPENAI_API_KEY, pdf2image missing or the rendering failed
VisionSkipped ==
    /\ pc = "scored"
    /\ prev' = payload
    /\ pc' = "written"
    /\ UNCHANGED <<avars, mvars, s, val>>

\* llm_vision_fix asking the vision model about every key of low
VisionFix ==
    /\ pc = "scored"
    /\ \E r \in [1..Len(low) -> DOMAIN VisionReplies] :
          payload' = llm_vision_fix(payload, low,
                                    [i \in 1..Len(low) |-> VisionReplies[r[i]]])
    /\ prev' = payload
    /\ pc' = "written"
    /\ UNCHANGED <<avars, doc, conf, low, fixed, s, val>>

Next ==
    \/ Extract
    \/ ExtractError
    \/ Cleanup
    \/ CleanupError
    \/ RefineSkipped
    \/ RefineMerged
    \/ Score
    \/ ScoreError
    \/ VisionSkipped
    \/ VisionFix

Spec == Init /\ [][Next]_vars

(***************************************************************************)
(* parse_weight as a single call                                            *)
(***************************************************************************)
InitWeight ==
    /\ NoJobs
    /\ pc = "weight_call"
    /\ s \in WeightInputs
    /\ val = <<>>
    /\ doc = <<>>
    /\ payload = NoneV
    /\ conf = Dict(<<>>)
    /\ low = <<>>
    /\ fixed = NoneV
    /\ prev = NoneV

ParseWeight ==
    /\ pc = "weight_call"
    /\ val' = parse_weight(s)
    /\ pc' = "weight_done"
    /\ UNCHANGED <<avars, mvars, prev, s>>

NextWeight == ParseWeight

SpecWeight == InitWeight /\ [][NextWeight]_vars

(***************************************************************************)
(* postprocess_cleanup called on a candidate document, and again on what    *)
(* it returned                                                              *)
(***************************************************************************)
InitNormalizer ==
    /\ NoJobs
    /\ pc = "normalizer_call"
    /\ payload \in Candidates
    /\ prev = NoneV
    /\ doc = <<>>
    /\ conf = Dict(<<>>)
    /\ low = <<>>
    /\ fixed = NoneV
    /\ s = <<>>
    /\ val = <<>>

Normalize ==
    /\ pc = "normalizer_call"
    /\ prev' = payload
    /\ payload' = postprocess_cleanup(payload)
    /\ pc' = "normalized_once"
    /\ UNCHANGED <<avars, doc, conf, low, fixed, s, val>>

\* the call raises re.error (Python 3.11 and later)
NormalizeRaises ==
    /\ pc = "normalizer_call"
    /\ CleanupRaises(payload)
    /\ pc' = "raised"
    /\ UNCHANGED <<avars, mvars, prev, s, val>>

NormalizeAgain ==
    /\ pc = "normalized_once"
    /\ prev' = payload
    /\ payload' = postprocess_cleanup(payload)
    /\ pc' = "normalized_twice"
    /\ UNCHANGED <<avars, doc, conf, low, fixed, s, val>>

NextNormalizer ==
    \/ Normalize
    \/ NormalizeRaises
    \/ NormalizeAgain

SpecNormalizer == InitNormalizer /\ [][NextNormalizer]_vars

(***************************************************************************)
(* pick_from called for every field of a document                           *)
(***************************************************************************)
\* {k: pick_from(LABELS[k], max_chars) for every field k}
ResolveAll(spans, text, table_kv) ==
    [k \in DOMAIN LABELS |->
        pick_from(spans, text, table_kv, LABELS[k], MAX_CHARS[k])]

InitResolver ==
    /\ NoJobs
    /\ pc = "resolver_call"
    /\ doc \in GoodDocs
    /\ val = <<>>
    /\ payload = NoneV
    /\ conf = Dict(<<>>)
    /\ low = <<>>
    /\ fixed = NoneV
    /\ prev = NoneV
    /\ s = <<>>

Resolve ==
    /\ pc = "resolver_call"
    /\ val' = ResolveAll(collect_spans(doc), flatten_text(doc),
                         parse_tables_for_pairs(collect_tables(doc)))
    /\ pc' = "resolved"
    /\ UNCHANGED <<avars, mvars, prev, s>>

NextResolver == Resolve

SpecResolver == InitResolver /\ [][NextResolver]_vars

(***************************************************************************)
(* Span.right_of, Span.below and nearest_value around one label span        *)
(***************************************************************************)
\* what the two predicates say of every span against the label span, for
\* the spans of its page
Compared(spans, label_span) ==
    [i \in DOMAIN spans |->
        [right |-> spans[i].page = label_span.page
                     /\ right_of(spans[i], label_span),
         below |-> spans[i].page = label_span.page
                     /\ below(spans[i], label_span)]]

InitGeometry ==
    /\ NoJobs
    /\ pc = "geometry_call"
    /\ s \in SpanLists
    /\ val = <<>>
    /\ doc = <<>>
    /\ payload = NoneV
    /\ conf = Dict(<<>>)
    /\ low = <<>>
    /\ fixed = NoneV
    /\ prev = NoneV

Compare ==
    /\ pc = "geometry_call"
    /\ val' = [compared |-> Compared(s, LabelSpan), nearest |-> NoneV]
    /\ pc' = "compared"
    /\ UNCHANGED <<avars, mvars, prev, s>>

Nearest ==
    /\ pc = "compared"
    /\ val' = [val EXCEPT !.nearest = nearest_value(s, LabelSpan)]
    /\ pc' = "nearest_done"
    /\ UNCHANGED <<avars, mvars, prev, s>>

NextGeometry ==
    \/ Compare
    \/ Nearest

SpecGeometry == InitGeometry /\ [][NextGeometry]_vars

(***************************************************************************)
(* The web application: upload, the background task process_job and         *)
(* get_result, on the jobs of Jobs.  Every statement that takes JOBS_LOCK   *)
(* is one step; so is every external call, which returns or raises.  The    *)
(* deadline of adobe_poll_job is reached after at most MaxPolls polls; the  *)
(* count of polls is local to the call and is 0 outside it.                 *)
(***************************************************************************)
\* tmp.name of the job's upload, and the paths derived from it
src_pdf_path(j) == <<"tmp", j, ".pdf">>
filled_path(j) == <<"tmp", j, "_filled.json">>
final_pdf(j) == src_pdf_path(j) \o <<"_filled.pdf">>

\* str(e) of the exceptions process_job catches
E_REQUEST == <<"requests: the call failed">>
E_TIMEOUT == <<"Timed out waiting for Adobe job">>
E_FAILED == <<"Adobe job failed">>
E_NO_URI == <<"No downloadUri">>
E_NORMALIZER == <<"AI normalizer failed">>

\* JOBS[job_id] = {"status": "queued", ...}
QueuedJob ==
    [status |-> "queued", result_path |-> NoneV, error |-> NoneV,
     download_name |-> NoneV]

\* process_job without its first statement
RunningSkipped(job) == job

\* JOBS[job_id]["status"] = "running"
Running(job) == [job EXCEPT !.status = "running"]

\* JOBS[job_id].update({"status": "done", "result_path": ..., "download_name": ...})
DoneWith(job, path, name) ==
    [job EXCEPT !.status = "done", !.result_path = Str(path),
                !.download_name = Str(name)]

\* an except clause that records nothing
FailedUnrecorded(job, e) == job

\* except Exception as e: JOBS[job_id].update({"status": "error", "error": str(e)})
Failed(job, e) == [job EXCEPT !.status = "error", !.error = Str(e)]

\* the statements of process_job that make an external call
PollStages == {"poll_extract", "poll_docgen"}
CallStages ==
    {"run_extract", "fetch_extract", "normalizer", "run_docgen", "fetch_docgen"}
        \cup PollStages

\* what the call of a stage may raise, the polling loop's own raises apart
Raisable(stage) ==
    CASE stage \in {"fetch_extract", "fetch_docgen"} -> {E_REQUEST, E_NO_URI}
      [] stage = "normalizer" -> {E_NORMALIZER}
      [] OTHER -> {E_REQUEST}

\* the statement after a call that returned
AfterCall(stage) ==
    CASE stage = "run_extract" -> "poll_extract"
      [] stage = "poll_extract" -> "fetch_extract"
      [] stage = "fetch_extract" -> "normalizer"
      [] stage = "run_docgen" -> "poll_docgen"
      [] stage = "poll_docgen" -> "fetch_docgen"

\* POST /upload with a file whose name ends with .pdf
upload(j) ==
    /\ task[j] = "none"
    /\ JOBS' = (j :> QueuedJob) @@ JOBS
    /\ pdfs' = pdfs \cup {j}
    /\ task' = [task EXCEPT ![j] = "scheduled"]
    /\ resp' = [code |-> 200, job |-> j, status |-> "job_id"]
    /\ UNCHANGED <<nvars, polls, template>>

\* POST /upload with another file name: HTTP 400, no job
upload_rejected ==
    /\ resp' = [code |-> 400, job |-> 0, status |-> "none"]
    /\ UNCHANGED <<nvars, JOBS, task, polls, pdfs, template>>

\* process_job: with JOBS_LOCK: JOBS[job_id]["status"] = "running"
start(j) ==
    /\ task[j] = "scheduled"
    /\ JOBS' = [JOBS EXCEPT ![j] = Running(@)]
    /\ task' = [task EXCEPT ![j] = "run_extract"]
    /\ UNCHANGED <<nvars, polls, pdfs, template, resp>>

\* the calls of run_extract and run_docgen_inline around adobe_poll_job
\* return
returns(j) ==
    /\ task[j] \in {"run_extract", "fetch_extract", "run_docgen"}
    /\ task' = [task EXCEPT ![j] = AfterCall(@)]
    /\ polls' = [polls EXCEPT ![j] = 0]
    /\ UNCHANGED <<nvars, JOBS, pdfs, template, resp>>

\* adobe_poll_job: the job is neither done nor failed; time.sleep(interval_s)
poll_pending(j) ==
    /\ task[j] \in PollStages
    /\ polls[j] < MaxPolls
    /\ polls' = [polls EXCEPT ![j] = @ + 1]
    /\ UNCHANGED <<nvars, JOBS, task, pdfs, template, resp>>

\* adobe_poll_job: st == "done": return info
poll_done(j) ==
    /\ task[j] \in PollStages
    /\ polls[j] < MaxPolls
    /\ task' = [task EXCEPT ![j] = AfterCall(@)]
    /\ polls' = [polls EXCEPT ![j] = 0]
    /\ UNCHANGED <<nvars, JOBS, pdfs, template, resp>>

\* adobe_poll_job: st == "failed": RuntimeError, caught by process_job
poll_failed(j) ==
    /\ task[j] \in PollStages
    /\ polls[j] < MaxPolls
    /\ JOBS' = [JOBS EXCEPT ![j] = Failed(@, E_FAILED)]
    /\ task' = [task EXCEPT ![j] = "finally"]
    /\ polls' = [polls EXCEPT ![j] = 0]
    /\ UNCHANGED <<nvars, pdfs, template, resp>>

\* adobe_poll_job: the deadline has passed: TimeoutError, caught by
\* process_job
poll_timeout(j) ==
    /\ task[j] \in PollStages
    /\ polls[j] >= 1
    /\ JOBS' = [JOBS EXCEPT ![j] = Failed(@, E_TIMEOUT)]
    /\ task' = [task EXCEPT ![j] = "finally"]
    /\ polls' = [polls EXCEPT ![j] = 0]
    /\ UNCHANGED <<nvars, pdfs, template, resp>>

\* an external call raises, or the normalizer's return code is not 0:
\* except Exception as e
raises(j) ==
    /\ task[j] \in CallStages
    /\ task[j] \in PollStages => polls[j] < MaxPolls
    /\ \E e \in Raisable(task[j]) :
          JOBS' = [JOBS EXCEPT ![j] = Failed(@, e)]
    /\ task' = [task EXCEPT ![j] = "finally"]
    /\ polls' = [polls EXCEPT ![j] = 0]
    /\ UNCHANGED <<nvars, pdfs, template, resp>>

\* the normalizer returned 0: document generation when the template exists,
\* else the job is done with the JSON
normalized(j) ==
    /\ task[j] = "normalizer"
    /\ IF template
       THEN /\ task' = [task EXCEPT ![j] = "run_docgen"]
            /\ UNCHANGED JOBS
       ELSE /\ JOBS' = [JOBS EXCEPT ![j] =
                           DoneWith(@, filled_path(j), <<"stem", "_processed.json">>)]
            /\ task' = [task EXCEPT ![j] = "finally"]
    /\ UNCHANGED <<nvars, polls, pdfs, template, resp>>

\* run_docgen_inline returned final_pdf: the job is done with the PDF
docgen_done(j) ==
    /\ task[j] = "fetch_docgen"
    /\ JOBS' = [JOBS EXCEPT ![j] =
                   DoneWith(@, final_pdf(j), <<"stem", "_filled.pdf">>)]
    /\ task' = [task EXCEPT ![j] = "finally"]
    /\ UNCHANGED <<nvars, polls, pdfs, template, resp>>

\* finally: Path(src_pdf_path).unlink(missing_ok=True)
unlink(j) ==
    /\ task[j] = "finally"
    /\ pdfs' = pdfs \ {j}
    /\ task' = [task EXCEPT ![j] = "returned"]
    /\ UNCHANGED <<nvars, JOBS, polls, template, resp>>

\* the steps of the background task of job j
process_job(j) ==
    \/ start(j)
    \/ returns(j)
    \/ poll_pending(j)
    \/ poll_done(j)
    \/ poll_failed(j)
    \/ poll_timeout(j)
    \/ raises(j)
    \/ normalized(j)
    \/ docgen_done(j)
    \/ unlink(j)

\* what GET /result/{job_id} answers: the status code and the status of the
\* body; the body does not name the job
Answer(j) ==
    IF j \notin DOMAIN JOBS THEN [code |-> 404, job |-> 0, status |-> "job not found"]
    ELSE IF JOBS[j].status \in {"queued", "running"}
    THEN [code |-> 200, job |-> 0, status |-> JOBS[j].status]
    ELSE IF JOBS[j].status = "error" THEN [code |-> 500, job |-> 0, status |-> "error"]
    ELSE IF IsNone(JOBS[j].result_path)
    THEN [code |-> 500, job |-> 0, status |-> "result missing"]
    ELSE [code |-> 200, job |-> 0, status |-> "file"]

\* GET /result/{job_id}
get_result(j) ==
    /\ resp' = Answer(j)
    /\ UNCHANGED <<nvars, JOBS, task, polls, pdfs, template>>

InitJobs ==
    /\ JOBS = <<>>
    /\ task = [j \in Jobs |-> "none"]
    /\ polls = [j \in Jobs |-> 0]
    /\ pdfs = {}
    /\ template \in BOOLEAN
    /\ resp = [code |-> 0, job |-> 0, status |-> "none"]
    /\ pc = "serving"
    /\ doc = <<>>
    /\ payload = NoneV
    /\ conf = Dict(<<>>)
    /\ low = <<>>
    /\ fixed = NoneV
    /\ prev = NoneV
    /\ s = <<>>
    /\ val = <<>>

NextJobs ==
    \/ \E j \in Jobs : upload(j)
    \/ upload_rejected
    \/ \E j \in Jobs : start(j)
    \/ \E j \in Jobs : returns(j)
    \/ \E j \in Jobs : poll_pending(j)
    \/ \E j \in Jobs : poll_done(j)
    \/ \E j \in Jobs : poll_failed(j)
    \/ \E j \in Jobs : poll_timeout(j)
    \/ \E j \in Jobs : raises(j)
    \/ \E j \in Jobs : normalized(j)
    \/ \E j \in Jobs : docgen_done(j)
    \/ \E j \in Jobs : unlink(j)
    \/ \E j \in Jobs : get_result(j)

SpecJobs == InitJobs /\ [][NextJobs]_vars

\* the background task of every job keeps running: each of its calls
\* returns, raises or times out
SpecJobsFair ==
    InitJobs /\ [][NextJobs]_vars /\ \A j \in Jobs : WF_vars(process_job(j))

(***************************************************************************)
(* Properties                                                               *)
(***************************************************************************)
\* the characters of t are digits and at most one ".", with a digit: what
\* float() reads as a non-negative number
IsDecimalNumeral(t) ==
    /\ \E i \in 1..Len(t) : IsDigit(t[i])
    /\ \A i \in 1..Len(t) : IsDigit(t[i]) \/ t[i] = "."
    /\ Cardinality({i \in 1..Len(t) : t[i] = "."}) <= 1

\* x is an empty value: None, "", a str of whitespace, an empty container
IsEmptyValue(x) ==
    \/ IsNone(x)
    \/ x.t = "str" /\ Strip(x.v) = <<>>
    \/ x.t \in {"dict", "list"} /\ x.v = <<>>

\* the keys of a document at every nesting level, with what each holds
RECURSIVE Shape(_)
Shape(d) ==
    IF d.t = "dict"
    THEN {<<d.v[i][1], Shape(d.v[i][2])>> : i \in DOMAIN d.v}
    ELSE {<<>>}

\* the spans of a document, the label spans of a field among them, and the
\* other spans that sit on the line of the first label span, to its right
ValueSpans(spans, lsp) ==
    {i \in DOMAIN spans :
        /\ \A j \in DOMAIN lsp : spans[i] # lsp[j]
        /\ spans[i].page = lsp[1].page
        /\ right_of(spans[i], lsp[1])}

\* the key/value map of the tables of the document of the run
DocTableKV == parse_tables_for_pairs(collect_tables(doc))

\* nothing in the document of the run matches a synonym of labels
Unmatched(labels) ==
    /\ \A i \in DOMAIN collect_spans(doc) :
          ~ContainsAny(collect_spans(doc)[i].text, labels)
    /\ TableHits(DocTableKV, labels) = {}
    /\ ~ContainsAny(flatten_text(doc), labels)

(* C1: postprocess_cleanup is idempotent: for any candidate document,      *)
(* applying it a second time returns exactly the document the first        *)
(* application returned.                                                   *)
C1_NormalizerIdempotent ==
    pc = "normalized_twice" => payload = prev

(* C2: parse_weight returns the intended number: "123,45 kg" gives         *)
(* "123.45", "1.234,56kg" gives "1234.56", "1.234,50 kg" gives "1234.50",  *)
(* a string without a number gives "", and whatever it returns for a       *)
(* matching string reads as a non-negative number.                         *)
C2_ParseWeightIntended ==
    pc = "weight_done" =>
        /\ s = W_123c45_kg => val = <<"1", "2", "3", ".", "4", "5">>
        /\ s = W_1d234c56kg => val = <<"1", "2", "3", "4", ".", "5", "6">>
        /\ s = W_1d234c50_kg => val = <<"1", "2", "3", "4", ".", "5", "0">>
        /\ s = W_no_numbers_here => val = <<>>
        /\ val # <<>> => IsDecimalNumeral(val)

(* C3: when the first label span of refs.shipment_no has a value span on   *)
(* its page and line to its right and no table row matches the label, the  *)
(* field resolves to the text of such a value span, not to the label's own *)
(* text, and, the enhancer not intervening, the confidence map holds 0.95  *)
(* under "refs.shipment_no".                                               *)
C3_RightOfValueResolves ==
    LET spans == collect_spans(doc)
        lsp   == find_label_spans(spans, L_shipment_no)
    IN  (/\ pc \in {"extracted", "scored"}
         /\ lsp # <<>>
         /\ TableHits(DocTableKV, L_shipment_no) = {}
         /\ ValueSpans(spans, lsp) # {})
        => /\ pc = "extracted" =>
               Leaf(payload, K_refs, K_shipment_no)
                   \in {Str(spans[i].text) : i \in ValueSpans(spans, lsp)}
           /\ (pc = "scored" /\ IsNone(fixed)) =>
               Get(conf, DottedKey(<<K_refs, K_shipment_no>>), Num(0)).v = 95

\* the proximity value of field k in the document of the run
ProximityValue(k) ==
    FirstNearest(collect_spans(doc),
                 find_label_spans(collect_spans(doc), LABELS[k]))
\* the values of the table rows whose key matches a synonym of field k
TableValues(k) ==
    {DocTableKV.v[h[2]][2].v : h \in TableHits(DocTableKV, LABELS[k])}
\* field k is anchored in a table and by proximity, with different values
BothTiers(k) ==
    /\ TableValues(k) # {}
    /\ Truthy(ProximityValue(k))
    /\ ProximityValue(k).v \notin TableValues(k)

(* C4: tier order of pick_from: for a field whose synonyms match a table   *)
(* key and a label span with a proximity value, the two values different,  *)
(* pick_from returns the value of a matching table row, never the          *)
(* proximity value.                                                        *)
C4_TableTierWins ==
    pc = "resolved" =>
        \A k \in DOMAIN LABELS :
            BothTiers(k) => /\ val[k] \in TableValues(k)
                            /\ val[k] # ProximityValue(k).v

\* a document with the label span, a value span on its line and a table row
\* for the same label has been resolved to the value of the row
C4_Witness ==
    /\ pc = "resolved"
    /\ BothTiers("shipment_no")
    /\ \E i \in DOMAIN collect_spans(doc) :
          collect_spans(doc)[i].text = T_SHP_2024_001
    /\ val["shipment_no"] = T_T1

(* C5, as stated: a span within 6 of the label's line that satisfies the   *)
(* below window never satisfies right_of and below together.               *)
C5_PredicatesExclusive ==
    pc = "compared" =>
        \A i \in DOMAIN s :
            (/\ s[i].page = LabelSpan.page
             /\ Abs(s[i].y - LabelSpan.y) <= SAME_LINE_TOL
             /\ val.compared[i].below)
            => ~(val.compared[i].right /\ val.compared[i].below)

\* the first span of the list that is on the label's page and line, to its
\* right
FirstRight(spans) ==
    MinOf({i \in DOMAIN spans : spans[i].page = LabelSpan.page
                                  /\ right_of(spans[i], LabelSpan)})

(* C5, amended: right_of and below hold together only for a span that is   *)
(* lower than the label by at most 6; nearest_value settles the overlap,   *)
(* returning the first span right of the label whenever there is one,      *)
(* whatever spans are below it.                                            *)
C5_SameLinePreemptsBelow ==
    /\ pc \in {"compared", "nearest_done"} =>
          \A i \in DOMAIN s :
              (val.compared[i].right /\ val.compared[i].below)
              => /\ s[i].y > LabelSpan.y
                 /\ s[i].y - LabelSpan.y <= SAME_LINE_TOL
    /\ pc = "nearest_done" =>
          ((\E i \in DOMAIN s : val.compared[i].right)
           => val.nearest = Str(s[FirstRight(s)].text))

\* a span satisfied both predicates, another span was below only, and
\* nearest_value returned a span right of the label
C5_Witness ==
    /\ pc = "nearest_done"
    /\ \E i \in DOMAIN s : val.compared[i].right /\ val.compared[i].below
    /\ \E i \in DOMAIN s : ~val.compared[i].right /\ val.compared[i].below
    /\ val.nearest = Str(s[FirstRight(s)].text)

(* C6: a field filled by the enhancer (None before llm_refine or           *)
(* llm_vision_fix, not None after it) has a confidence of at most 0.75 in  *)
(* the confidence map, under its key or under the key mark stores it to.   *)
C6_EnhancerFilledCapped ==
    pc \in {"scored", "written"} =>
        \A k \in FieldKeys :
            (/\ IsNone(Leaf(prev, k[1], k[2]))
             /\ ~IsNone(Leaf(payload, k[1], k[2])))
            => \A key \in {DottedKey(k), MarkKey(k[1], k[2])} :
                   HasKey(conf, key) => Get(conf, key, NoneV).v <= 75

(* C7: in the output every field key of the fixed schema has its entry in  *)
(* the confidence map, and the entry is 0.0 or the field is not None.      *)
C7_ConfidenceInvariant ==
    pc \in {"scored", "written"} =>
        \A k \in FieldKeys :
            /\ HasKey(conf, DottedKey(k))
            /\ \/ Get(conf, DottedKey(k), Num(0)).v = 0
               \/ ~IsNone(Leaf(payload, k[1], k[2]))

(* C8: the merge of llm_refine never overrides with an empty value: where  *)
(* the model's value for a field is None, "", whitespace or an empty       *)
(* container and the document held a non-empty value, the merged document  *)
(* keeps that value.                                                       *)
C8_MergeKeepsNonEmpty ==
    (pc = "refined" /\ ~IsNone(fixed)) =>
        \A k \in FieldKeys :
            (/\ HasKey(Get(fixed, k[1], NoneV), k[2])
             /\ IsEmptyValue(Leaf(fixed, k[1], k[2]))
             /\ ~IsEmptyValue(Leaf(prev, k[1], k[2])))
            => SameValue(Leaf(payload, k[1], k[2]), Leaf(prev, k[1], k[2]))

(* C9: the merge of llm_refine introduces no key: the keys of the merged   *)
(* document at every nesting level are those of the document before it,    *)
(* and no leaf has become a mapping nor a section a scalar.                *)
C9_MergeKeepsKeys ==
    (pc = "refined" /\ ~IsNone(fixed)) => Shape(payload) = Shape(prev)

(* C10: when no span, table key or flat text matches a synonym of bl.type  *)
(* and the enhancer does not answer, the output bl.type is None, its       *)
(* confidence is 0.0 under "bl.type", and "bl.type" is in the list of      *)
(* low-confidence keys handed to the enhancer.                             *)
C10_MissingFieldEscalates ==
    (pc = "scored" /\ IsNone(fixed) /\ Unmatched(L_bl_type)) =>
        /\ IsNone(Leaf(payload, K_bl, K_type))
        /\ HasKey(conf, DottedKey(<<K_bl, K_type>>))
        /\ Get(conf, DottedKey(<<K_bl, K_type>>), Num(0)).v = 0
        /\ \E i \in DOMAIN low : low[i] = DottedKey(<<K_bl, K_type>>)
(* C11: malformed input is never fatal: extract_fields returns a candidate *)
(* document for every layout tree, also one with a node whose Bounds has   *)
(* one entry or an entry that is not a number, whose PageNumber is not a   *)
(* number, or whose Table is not a mapping.                                *)
C11_MalformedNeverFatal ==
    pc # "extract_raised"

(* C12: the enhancer fails soft: when llm_refine is not available, its     *)
(* request raises, or the model's answer is not a JSON object, llm_refine  *)
(* returns the document it was given, every field as it was.               *)
C12_EnhancerFailureSoft ==
    (pc = "refined" /\ (IsNone(fixed) \/ fixed.t # "dict")) =>
        (payload.t = "dict" /\ SameValue(payload, prev))

\* the bare 3-letter uppercase tokens of w that belong to the Incoterms set
IncotermsIn(w) ==
    IF w.t # "str" THEN {}
    ELSE {SubSeq(w.v, i, i + 2) : i \in BareTokens(w.v)} \cap INCOTERMS_SET

(* C13: after postprocess_cleanup, where shipping.incoterms was empty and  *)
(* shipping.way_of_forwarding holds a bare 3-letter uppercase token of the *)
(* Incoterms set, shipping.incoterms is such a token, also when another    *)
(* 3-letter uppercase token precedes it; a token outside the set is never  *)
(* promoted; an incoterms value that cleans to a non-empty one is kept.    *)
C13_IncotermsInferred ==
    pc = "normalized_once" =>
        LET was == Leaf(prev, K_shipping, K_incoterms)
            now == Leaf(payload, K_shipping, K_incoterms)
            found == IncotermsIn(Leaf(payload, K_shipping, K_way_of_forwarding))
        IN  /\ (IsEmptyValue(was) /\ found # {}) =>
                   (now.t = "str" /\ now.v \in found)
            /\ (IsEmptyValue(was) /\ ~IsNone(now)) =>
                   (now.t = "str" /\ now.v \in INCOTERMS_SET)
            /\ (was.t = "str" /\ clean_scalar(was.v) # <<>>) =>
                   (now.t = "str" /\ now.v = clean_scalar(was.v))

(* C14: a str field that extract_fields resolved and postprocess_cleanup   *)
(* reduced to an empty or blank one is stored as None, never as "", and    *)
(* mark scores it 0.6; a field that was never resolved and is None scores  *)
(* 0.0.                                                                    *)
C14_CleanedToEmptyScored ==
    (pc = "scored" /\ IsNone(fixed)) =>
        \A k \in FieldKeys :
            LET raw == Leaf(extract_fields(doc), k[1], k[2])
                now == Leaf(payload, k[1], k[2])
                score == Get(conf, MarkKey(k[1], k[2]), Num(0)).v
            IN  /\ (raw.t = "str" /\ IsEmptyValue(now)) =>
                       (IsNone(now) /\ score = 60)
                /\ (IsNone(raw) /\ IsNone(now)) => score = 0

\* the indexes of the spans of the list that Compare found right of the
\* label, and below it
RightOfLabel == {i \in DOMAIN s : val.compared[i].right}
BelowLabel == {i \in DOMAIN s : val.compared[i].below}
\* span i is at least as near to the label as span j: by vertical distance,
\* then by |dx|
NearerOrSame(i, j) ==
    \/ s[i].y - LabelSpan.y < s[j].y - LabelSpan.y
    \/ /\ s[i].y - LabelSpan.y = s[j].y - LabelSpan.y
       /\ Abs(s[i].x - LabelSpan.x) <= Abs(s[j].x - LabelSpan.x)

FlatTextValue(k) ==
    LabelledCapture(flatten_text(doc), LABELS[k], MAX_CHARS[k])

(* C17: pick_from returns "" only when no tier can produce a non-empty     *)
(* value: a table row whose key matches a synonym and whose value is empty *)
(* does not keep the proximity tier and the flat text tier from supplying  *)
(* the value.                                                              *)
C17_EmptyOnlyWhenNoTier ==
    pc = "resolved" =>
        \A k \in DOMAIN LABELS :
            val[k] = <<>> =>
                /\ \A v \in TableValues(k) : v = <<>>
                /\ ~Truthy(ProximityValue(k))
                /\ \/ IsNone(FlatTextValue(k))
                   \/ Strip(FlatTextValue(k).v) = <<>>

\* the moves of a job's status: none, queued -> running, running -> done,
\* running -> error
LifecycleMoves ==
    {<<st, st>> : st \in {"queued", "running", "done", "error"}}
        \cup {<<"queued", "running">>, <<"running", "done">>, <<"running", "error">>}

(* C15: under any interleaving of upload, process_job and get_result on    *)
(* the jobs, a job enters the table as queued and its status moves only    *)
(* queued -> running -> done or error: it never skips running, never moves *)
(* backwards and never changes once it is done or error; no job leaves the *)
(* table.                                                                  *)
C15_StatusLifecycle ==
    [][\A j \in Jobs :
          /\ j \in DOMAIN JOBS =>
                /\ j \in DOMAIN JOBS'
                /\ <<JOBS[j].status, JOBS'[j].status>> \in LifecycleMoves
          /\ (j \notin DOMAIN JOBS /\ j \in DOMAIN JOBS') =>
                JOBS'[j].status = "queued"]_vars

\* one job is done, another has failed, and get_result has answered the
\* failure
C15_Witness ==
    /\ \E j, k \in DOMAIN JOBS :
          /\ JOBS[j].status = "done"
          /\ JOBS[k].status = "error"
          /\ resp = Answer(k)

====
